---- MODULE Spec2Model ----
(***************************************************************************)
(* The company-structure diagram pipeline of mcp_tools.drawings:           *)
(* SVGGenerator.generate_company_diagram (svg_generator.py),               *)
(* CompanyStructureGenerator.generate_company_diagram                      *)
(* (company_structure.py) and the DrawingsMCPServer.company_structure      *)
(* endpoint (drawings.py), as one state machine per diagram call.          *)
(*                                                                         *)
(* ColorSpec repeats the call within one process, with the companion       *)
(* parameters color_category, custom_colors and focus_company; ServerSpec   *)
(* is BaseMCPServer.register_endpoint (base_server.py) and main()           *)
(* (__main__.py).                                                           *)
(*                                                                         *)
(* Numbers that Python holds as floats (percentages, thresholds) are kept  *)
(* in tenths: 60.0 is 600.  Percentage strings are sequences of one-       *)
(* character strings, so that strip / rstrip('%') / float() are computed.  *)
(***************************************************************************)
EXTENDS Integers, Sequences, FiniteSets, TLC

VARIABLES
    gen,                \* which entry point runs: "svg", "plotly", "endpoint"
    companies_data,     \* the call's companies_data argument
    pc,                 \* position of the call in generate_company_diagram
    root_companies,     \* result of _find_root_companies
    root_index,         \* position of the `for root in root_companies` loop
    company_positions,  \* ordered dict id -> level, as a sequence of [id, level]
    visited,            \* the visited set of the current root's traversal
    stack,              \* activation records of calculate_level
    max_level,          \* max_level of _calculate_hierarchy_levels
    reached_via,        \* history: id -> the id whose expansion last recorded it
    recorded,           \* history: the writes to company_positions, in order
    level_companies,    \* dict level -> list of ids
    svg_height,         \* height computed for the document
    boxes,              \* rectangles emitted, in order
    connections,        \* connector lines emitted, in order
    exc,                \* exception in flight ("" when none)
    failure,            \* history: the exception the call raised and where
    result,             \* value returned by the call
    color_category,     \* the call's color_category argument (SVG generator)
    custom_colors,      \* the call's custom_colors argument: None or a dict
    focus_company,      \* the call's focus_company argument ("" when not given)
    COLOR_CATEGORIES,   \* the module-level presets of constants.py
    entity_styles,      \* entity_styles of the SVG call, colors of the Plotly call
    box_styles,         \* fill, stroke and stroke width of each rectangle emitted
    earlier,            \* history: what the earlier calls of the process returned
    main_pc,            \* position of main(); "test" when register_endpoint is
                        \* called directly, "none" when no server is under study
    nocodb_configured,  \* NOCODB_URL and NOCODB_API_TOKEN are both set
    endpoints,          \* BaseMCPServer.endpoints: name -> endpoint server
    mounted,            \* paths mounted on BaseMCPServer.app, in order
    call,               \* history: arguments of the latest register_endpoint call
    raised,             \* exception the latest register_endpoint or run call raised
    exit_status,        \* status main() passed to sys.exit (-1: no exit)
    schema_cache,       \* NocoDBMCPServer._schema_cache: key -> [table_id]
    remote_tables,      \* the tables the NocoDB instance holds: base id -> {[id, title]}
    noco,               \* history: the latest NocoDB tool call and what it returned
    noco_calls,         \* number of tool calls made so far
    batch               \* the locals of the running upsert_records / bulk_operations

styleVars == <<color_category, custom_colors, focus_company, COLOR_CATEGORIES,
               entity_styles, box_styles, earlier>>

serverVars == <<main_pc, nocodb_configured, endpoints, mounted, call, raised,
                exit_status>>

nocoVars == <<schema_cache, remote_tables, noco, noco_calls, batch>>

vars == <<gen, companies_data, pc, root_companies, root_index, company_positions,
          visited, stack, max_level, reached_via, recorded, level_companies,
          svg_height, boxes, connections, exc, failure, result, styleVars, serverVars,
          nocoVars>>

----------------------------------------------------------------------------
(* constants.py *)

SVG_WIDTH == 900
SVG_HEIGHT_BASE == 200
SVG_HEIGHT_PER_LEVEL == 120
BOX_WIDTH == 180
BOX_HEIGHT == 70
BOX_MARGIN == 20
\* OWNERSHIP_THRESHOLDS, in tenths of a percent point
THRESHOLD_MAJORITY == 500
THRESHOLD_MINORITY == 250
\* first-row offset used by both generators
Y_OFFSET == 80
\* the error placeholder's size
ERROR_SVG_WIDTH == 400
ERROR_SVG_HEIGHT == 200

----------------------------------------------------------------------------
(* Bounds of the model *)

\* entities of a layout input
MaxEntities == 3
\* parent references of a layout input, over all its entities
MaxRefs == 3
\* parent references of the child in a percentage input
MaxPctRefs == 2
\* entities of a malformed input
MaxMalEntities == 2
\* frames of calculate_level before the interpreter raises RecursionError
MaxDepth == 8
\* references each of the two lower entities of a converging input may hold
MaxConvergingRefs == 2
\* entities of the widest single-level input
MaxWide == 5
\* diagram calls one process makes in a row
MaxCalls == 2
\* register_endpoint calls made on one BaseMCPServer
MaxRegistrations == 3

----------------------------------------------------------------------------
(* Small helpers *)

Max(a, b) == IF a >= b THEN a ELSE b

SetMax(S) == CHOOSE m \in S : \A x \in S : x <= m

Range(s) == {s[i] : i \in 1..Len(s)}

\* list.index(x): first position of x in s
IndexOf(s, x) == CHOOSE i \in 1..Len(s) : s[i] = x /\ \A j \in 1..(i - 1) : s[j] # x

----------------------------------------------------------------------------
(* The shape of the input *)

\* entity ids in the mapping's iteration order; AbsentId is never a key
AllIds == <<"A", "B", "C", "D", "E", "F">>
AbsentId == "X"
KeyIds(n) == {AllIds[i] : i \in 1..n}

NoPct == [t |-> "none", v |-> 0, s |-> <<>>]
NumPct(n) == [t |-> "num", v |-> n, s |-> <<>>]
StrPct(chars) == [t |-> "str", v |-> 0, s |-> chars]
OtherPct == [t |-> "other", v |-> 0, s |-> <<>>]

\* a parent reference: a bare id, {id, percentage}, or some other value
StrRef(id) == [k |-> "str", id |-> id, pct |-> NoPct]
DictRef(id, p) == [k |-> "dict", id |-> id, pct |-> p]
OtherRef == [k |-> "other", id |-> "", pct |-> NoPct]

\* an entry of the mapping.  pk says what its 'parents' value is:
\* "list" (refs), "absent" (no key), "none" (None), "noniter" (a number)
Entity(id, refs) == [id |-> id, isdict |-> TRUE, pk |-> "list", parents |-> refs]
OddEntity(id, pk) == [id |-> id, isdict |-> TRUE, pk |-> pk, parents |-> <<>>]
NonDictEntity(id) == [id |-> id, isdict |-> FALSE, pk |-> "absent", parents |-> <<>>]

DictData(items) == [isnone |-> FALSE, items |-> items]
NoneData == [isnone |-> TRUE, items |-> <<>>]

\* percentage values a reference may carry
PctNumbers == {600, -50, 300, 500, 250, 0}
PctStrings ==
    { <<"6", "0">>, <<"6", "0", "%">>, <<"6", "0", ".", "0">>,
      <<" ", "6", "0", " ", "%", " ">>, <<"-", "5">>,
      <<"a", "b", "c">>, <<>>, <<"%">>, <<"6", ".", "0", ".">> }
PctValues ==
    {NoPct, OtherPct} \cup {NumPct(n) : n \in PctNumbers}
                      \cup {StrPct(s) : s \in PctStrings}

\* sequences of length at most k over S
SeqsUpTo(S, k) == UNION {[1..j -> S] : j \in 0..k}

\* all ways to give n entities parent lists holding at most k references in all
RECURSIVE ParentLists(_, _, _)
ParentLists(n, k, Refs) ==
    IF n = 0 THEN {<<>>}
    ELSE UNION { {Append(rest, l) : rest \in ParentLists(n - 1, k - Len(l), Refs)}
                 : l \in SeqsUpTo(Refs, k) }

\* layout inputs: well-formed maps whose references are bare ids
LayoutInputs ==
    UNION { { DictData([i \in 1..n |-> Entity(AllIds[i], pl[i])])
              : pl \in ParentLists(n, MaxRefs,
                                   {StrRef(id) : id \in KeyIds(n) \cup {AbsentId}}) }
            : n \in 0..MaxEntities }

\* percentage inputs: root A and child B whose references to A carry percentages
PctInputs ==
    { DictData(<<Entity("A", <<>>), Entity("B", refs)>>)
      : refs \in SeqsUpTo({DictRef("A", p) : p \in PctValues}, MaxPctRefs) \ {<<>>} }

\* converging inputs: two roots A and B above C and D, whose references name
\* the other three entities
ConvergingInputs ==
    { DictData(<<Entity("A", <<>>), Entity("B", <<>>), Entity("C", c), Entity("D", d)>>)
      : c \in SeqsUpTo({StrRef(id) : id \in {"A", "B", "D"}}, MaxConvergingRefs),
        d \in SeqsUpTo({StrRef(id) : id \in {"A", "B", "C"}}, MaxConvergingRefs) }

\* regrouping inputs: C hangs below root A, D below root B, and E, listed last,
\* names up to MaxConvergingRefs of them, so that a later root can move E
RegroupInputs ==
    { DictData(<<Entity("A", <<>>), Entity("B", <<>>), Entity("C", <<StrRef("A")>>),
                 Entity("D", <<StrRef("B")>>), Entity("E", e)>>)
      : e \in SeqsUpTo({StrRef(id) : id \in {"A", "B", "C", "D"}}, MaxConvergingRefs) }

\* wide inputs: entities without parents only, so that one level holds them all
WideInputs ==
    { DictData([i \in 1..n |-> Entity(AllIds[i], <<>>)]) : n \in (MaxEntities + 1)..MaxWide }

\* malformed inputs: None, or entries that are no dict or whose parents are odd
MalEntityShapes(id, n) ==
    { NonDictEntity(id), OddEntity(id, "absent"), OddEntity(id, "none"),
      OddEntity(id, "noniter"), Entity(id, <<>>), Entity(id, <<OtherRef>>),
      Entity(id, <<DictRef(AbsentId, NumPct(600))>>) }
    \cup {Entity(id, <<StrRef(p)>>) : p \in KeyIds(n)}
MalformedInputs ==
    {NoneData} \cup
    UNION { { DictData(items)
              : items \in { f \in [1..n -> UNION {MalEntityShapes(AllIds[i], n) : i \in 1..n}]
                            : \A i \in 1..n : f[i].id = AllIds[i] } }
            : n \in 1..MaxMalEntities }

----------------------------------------------------------------------------
(* Percentage sanitising *)

Digits == {"0", "1", "2", "3", "4", "5", "6", "7", "8", "9"}
DigitVal(c) ==
    CASE c = "0" -> 0 [] c = "1" -> 1 [] c = "2" -> 2 [] c = "3" -> 3 [] c = "4" -> 4
      [] c = "5" -> 5 [] c = "6" -> 6 [] c = "7" -> 7 [] c = "8" -> 8 [] c = "9" -> 9

SetMin(S) == CHOOSE m \in S : \A x \in S : m <= x

\* str.lstrip(): drop the leading blanks
LStrip(s) ==
    IF \A i \in 1..Len(s) : s[i] = " " THEN <<>>
    ELSE SubSeq(s, SetMin({i \in 1..Len(s) : s[i] # " "}), Len(s))

\* str.rstrip(c): drop every trailing c
RStripChar(s, c) ==
    IF \A i \in 1..Len(s) : s[i] = c THEN <<>>
    ELSE SubSeq(s, 1, SetMax({i \in 1..Len(s) : s[i] # c}))

\* the element of a one-element set: TheOne({F(x) : x \in {e}}) is F(e) with e
\* computed once, like a local variable of the code
TheOne(S) == CHOOSE r \in S : TRUE

\* str.strip()
Strip(s) == TheOne({RStripChar(a, " ") : a \in {TheOne({LStrip(b) : b \in {s}})}})

\* value of the digits s[1..n]
RECURSIVE DigitsValUpTo(_, _)
DigitsValUpTo(s, n) ==
    IF n = 0 THEN 0 ELSE DigitsValUpTo(s, n - 1) * 10 + DigitVal(s[n])

\* float(s) for s over digits, sign, point and other characters, in tenths
\* (digits past the first decimal are dropped); ok = FALSE is ValueError
ParseFloat(s) ==
    LET signed == s # <<>> /\ Head(s) \in {"-", "+"}
        body == IF signed THEN Tail(s) ELSE s
        dots == {i \in 1..Len(body) : body[i] = "."}
        wellformed == /\ \A i \in 1..Len(body) : body[i] \in Digits \cup {"."}
                      /\ Cardinality(dots) <= 1
                      /\ \E i \in 1..Len(body) : body[i] \in Digits
        dot == IF dots = {} THEN Len(body) + 1 ELSE CHOOSE i \in dots : TRUE
        whole == DigitsValUpTo(body, dot - 1)
        tenth == IF dot + 1 <= Len(body) THEN DigitVal(body[dot + 1]) ELSE 0
        mag == whole * 10 + tenth
    IN  IF wellformed
        THEN [ok |-> TRUE, v |-> IF signed /\ Head(s) = "-" THEN 0 - mag ELSE mag]
        ELSE [ok |-> FALSE, v |-> 0]

Absent == [some |-> FALSE, v |-> 0]
Some(v) == [some |-> TRUE, v |-> v]

\* float(value_str) if value_str else None, inside the try block
ParseValueStr(value_str) ==
    IF value_str = <<>> THEN [raised |-> FALSE, parsed |-> Absent]
    ELSE IF ParseFloat(value_str).ok
         THEN [raised |-> FALSE, parsed |-> Some(ParseFloat(value_str).v)]
         ELSE [raised |-> TRUE, parsed |-> Absent]

\* ownership_percentage.strip().rstrip('%').strip()
ValueStr(s) == Strip(TheOne({RStripChar(a, "%") : a \in {Strip(s)}}))

\* the try block of _sanitize_percentage: parsed, or raised = TRUE
ParsePercentage(p) ==
    IF p.t = "str" THEN TheOne({ParseValueStr(value_str) : value_str \in {ValueStr(p.s)}})
    ELSE IF p.t = "num" THEN [raised |-> FALSE, parsed |-> Some(p.v)]
    ELSE [raised |-> FALSE, parsed |-> Absent]

\* `if parsed is not None and parsed >= 0`; an exception of the try block gives None
KeepNonNegative(r) ==
    IF ~r.raised /\ r.parsed.some /\ r.parsed.v >= 0 THEN r.parsed ELSE Absent

\* _sanitize_percentage / the inline block of _generate_single_connection
SanitizePercentage(p) ==
    IF p.t = "none" THEN Absent
    ELSE TheOne({KeepNonNegative(r) : r \in {ParsePercentage(p)}})

\* _get_connection_style on an Optional[float]
GetConnectionStyle(p) ==
    IF ~p.some THEN "default"
    ELSE IF p.v >= THRESHOLD_MAJORITY THEN "majority_ownership"
    ELSE IF p.v >= THRESHOLD_MINORITY THEN "minority_ownership"
    ELSE "default"

----------------------------------------------------------------------------
(* The ordered dict company_positions *)

PosIds(cp) == {cp[i].id : i \in 1..Len(cp)}
PosHas(cp, id) == id \in PosIds(cp)
PosGet(cp, id) == cp[CHOOSE i \in 1..Len(cp) : cp[i].id = id].level
\* company_positions[id] = level: a new key goes last, an old key keeps its place
PosPut(cp, id, level) ==
    IF PosHas(cp, id)
    THEN [i \in 1..Len(cp) |-> IF cp[i].id = id THEN [id |-> id, level |-> level] ELSE cp[i]]
    ELSE Append(cp, [id |-> id, level |-> level])

----------------------------------------------------------------------------
(* Root discovery and the children scan *)

\* a root test that looks for a missing key only
HasNoParentsKeyOnly(e) == e.pk = "absent"

\* `not company_data.get('parents')`
HasNoParents(e) == e.pk \in {"absent", "none"} \/ (e.pk = "list" /\ e.parents = <<>>)

RECURSIVE ParentlessIds(_)
ParentlessIds(items) ==
    IF items = <<>> THEN <<>>
    ELSE (IF HasNoParents(Head(items)) THEN <<Head(items).id>> ELSE <<>>)
         \o ParentlessIds(Tail(items))

\* root discovery whose fallback indexes the keys of an empty mapping
FindRootsRaisesOnEmpty(cd) ==
    cd.isnone \/ cd.items = <<>> \/ \E i \in 1..Len(cd.items) : ~cd.items[i].isdict

\* companies_data.items() on None, or .get on an entry that is no dict
FindRootsRaises(cd) == cd.isnone \/ \E i \in 1..Len(cd.items) : ~cd.items[i].isdict

\* root discovery without the first-entity fallback
FindRootCompaniesNoFallback(cd) == ParentlessIds(cd.items)

\* root discovery that also starts from entities none of whose parents is a key
RECURSIVE OrphanOrParentlessIds(_, _)
OrphanOrParentlessIds(items, keys) ==
    IF items = <<>> THEN <<>>
    ELSE (IF \/ HasNoParents(Head(items))
             \/ \A j \in 1..Len(Head(items).parents) : Head(items).parents[j].id \notin keys
          THEN <<Head(items).id>> ELSE <<>>)
         \o OrphanOrParentlessIds(Tail(items), keys)
FindRootCompaniesOrphansToo(cd) ==
    LET found == OrphanOrParentlessIds(cd.items, {cd.items[i].id : i \in 1..Len(cd.items)})
    IN  IF found = <<>> /\ cd.items # <<>> THEN <<cd.items[1].id>> ELSE found

\* _find_root_companies
FindRootCompanies(cd) ==
    LET found == ParentlessIds(cd.items)
    IN  IF found = <<>> /\ cd.items # <<>> THEN <<cd.items[1].id>> ELSE found

\* the id a reference names, for references the loops do not skip
NamesParent(ref, id) == ref.k \in {"str", "dict"} /\ ref.id = id

\* `for parent in parents` over child_data.get('parents', [])
IterRaises(e) == e.pk \in {"none", "noniter"}
ScanRaises(cd) == \E i \in 1..Len(cd.items) : IterRaises(cd.items[i])

\* a children list that stops at the first child found
ChildrenOfFirstOnly(cd, id) ==
    LET found == {i \in 1..Len(cd.items) :
                    \E j \in 1..Len(cd.items[i].parents) :
                        NamesParent(cd.items[i].parents[j], id)}
    IN  IF found = {} THEN <<>> ELSE <<cd.items[SetMin(found)].id>>

\* the children list built by calculate_level: each entity once, in input order
RECURSIVE ChildrenIn(_, _)
ChildrenIn(items, id) ==
    IF items = <<>> THEN <<>>
    ELSE (IF \E j \in 1..Len(Head(items).parents) : NamesParent(Head(items).parents[j], id)
          THEN <<Head(items).id>> ELSE <<>>)
         \o ChildrenIn(Tail(items), id)
ChildrenOf(cd, id) == ChildrenIn(cd.items, id)

----------------------------------------------------------------------------
(* Grouping and geometry *)

RECURSIVE IdsAtLevel(_, _)
IdsAtLevel(cp, level) ==
    IF cp = <<>> THEN <<>>
    ELSE (IF Head(cp).level = level THEN <<Head(cp).id>> ELSE <<>>)
         \o IdsAtLevel(Tail(cp), level)

\* a grouping that puts each id in front of its level's list
RECURSIVE IdsAtLevelPrepended(_, _)
IdsAtLevelPrepended(cp, level) ==
    IF cp = <<>> THEN <<>>
    ELSE IdsAtLevelPrepended(Tail(cp), level)
         \o (IF Head(cp).level = level THEN <<Head(cp).id>> ELSE <<>>)
GroupCompaniesByLevelPrepending(cp) ==
    [level \in {cp[i].level : i \in 1..Len(cp)} |-> IdsAtLevelPrepended(cp, level)]

\* _group_companies_by_level
GroupCompaniesByLevel(cp) ==
    [level \in {cp[i].level : i \in 1..Len(cp)} |-> IdsAtLevel(cp, level)]

LevelWidth(n) == n * (BOX_WIDTH + BOX_MARGIN) - BOX_MARGIN
\* a start_x that is kept inside the canvas
StartXClamped(n) == Max(0, (SVG_WIDTH - LevelWidth(n)) \div 2)
StartX(n) == (SVG_WIDTH - LevelWidth(n)) \div 2

\* SVGGenerator._calculate_box_position (index counted from 0)
CalculateBoxPosition(level, index, n) ==
    [x |-> StartX(n) + index * (BOX_WIDTH + BOX_MARGIN) + BOX_WIDTH \div 2,
     y |-> Y_OFFSET + level * SVG_HEIGHT_PER_LEVEL + BOX_HEIGHT \div 2]

\* the level whose list holds id (an id is in at most one list)
LevelOf(lc, id) == CHOOSE level \in DOMAIN lc : id \in Range(lc[level])
Placed(lc, id) == \E level \in DOMAIN lc : id \in Range(lc[level])
TopLevel(lc) == IF DOMAIN lc = {} THEN 0 ELSE SetMax(DOMAIN lc)

\* _get_company_position without the flip of the y axis
GetCompanyPositionUnflipped(id, lc) ==
    LET level == LevelOf(lc, id)
        n == Len(lc[level])
        index == IndexOf(lc[level], id) - 1
    IN  [x |-> StartX(n) + index * (BOX_WIDTH + BOX_MARGIN) + BOX_WIDTH \div 2,
         y |-> Y_OFFSET + level * SVG_HEIGHT_PER_LEVEL + BOX_HEIGHT \div 2]

GetCompanyPositionLeftEdge(id, lc) ==
    LET level == LevelOf(lc, id)
        n == Len(lc[level])
        index == IndexOf(lc[level], id) - 1
    IN  [x |-> StartX(n) + index * (BOX_WIDTH + BOX_MARGIN),
         y |-> Y_OFFSET + (TopLevel(lc) - level) * SVG_HEIGHT_PER_LEVEL + BOX_HEIGHT \div 2]

\* CompanyStructureGenerator._get_company_position, for a placed id
GetCompanyPosition(id, lc) ==
    LET level == LevelOf(lc, id)
        n == Len(lc[level])
        index == IndexOf(lc[level], id) - 1
    IN  [x |-> StartX(n) + index * (BOX_WIDTH + BOX_MARGIN) + BOX_WIDTH \div 2,
         y |-> Y_OFFSET + (TopLevel(lc) - level) * SVG_HEIGHT_PER_LEVEL + BOX_HEIGHT \div 2]

\* the box centre the SVG generator uses for a placed id
SvgPosition(id, cp, lc) ==
    LET level == PosGet(cp, id)
    IN  CalculateBoxPosition(level, IndexOf(lc[level], id) - 1, Len(lc[level]))

----------------------------------------------------------------------------
(* Connectors *)

RawPct(ref) == IF ref.k = "dict" THEN ref.pct ELSE NoPct

\* a style table whose three buckets share one stroke width
CONNECTION_STYLES_ONE_WIDTH(name) ==
    CASE name = "minority_ownership" -> [stroke_width |-> 2, stroke_dasharray |-> "5,5"]
      [] OTHER -> [stroke_width |-> 2, stroke_dasharray |-> "none"]

\* CONNECTION_STYLES of constants.py: stroke width and dash pattern of a bucket
CONNECTION_STYLES(name) ==
    CASE name = "default" -> [stroke_width |-> 2, stroke_dasharray |-> "none"]
      [] name = "majority_ownership" -> [stroke_width |-> 3, stroke_dasharray |-> "none"]
      [] name = "minority_ownership" -> [stroke_width |-> 2, stroke_dasharray |-> "5,5"]
      [] name = "joint_venture" -> [stroke_width |-> 2, stroke_dasharray |-> "10,5"]

\* a connection drawn from box centre to box centre
SvgSingleConnectionCentreToCentre(parent_id, child_id, cp, lc, raw) ==
    LET parent_pos == SvgPosition(parent_id, cp, lc)
        child_pos == SvgPosition(child_id, cp, lc)
    IN  [parent |-> parent_id, child |-> child_id,
         x1 |-> parent_pos.x, y1 |-> parent_pos.y,
         x2 |-> child_pos.x, y2 |-> child_pos.y,
         style |-> GetConnectionStyle(SanitizePercentage(raw)),
         stroke_width |-> CONNECTION_STYLES(GetConnectionStyle(SanitizePercentage(raw))).stroke_width,
         stroke_dasharray |->
             CONNECTION_STYLES(GetConnectionStyle(SanitizePercentage(raw))).stroke_dasharray,
         label |-> SanitizePercentage(raw)]

\* SVGGenerator._generate_single_connection
SvgSingleConnection(parent_id, child_id, cp, lc, raw) ==
    LET parent_pos == SvgPosition(parent_id, cp, lc)
        child_pos == SvgPosition(child_id, cp, lc)
        sanitized == SanitizePercentage(raw)
    IN  [parent |-> parent_id, child |-> child_id,
         x1 |-> parent_pos.x, y1 |-> parent_pos.y + BOX_HEIGHT \div 2,
         x2 |-> child_pos.x, y2 |-> child_pos.y - BOX_HEIGHT \div 2,
         style |-> GetConnectionStyle(sanitized),
         stroke_width |-> CONNECTION_STYLES(GetConnectionStyle(sanitized)).stroke_width,
         stroke_dasharray |-> CONNECTION_STYLES(GetConnectionStyle(sanitized)).stroke_dasharray,
         label |-> sanitized]

\* a connection guard that forgets the parent
DrawsConnectionChildOnly(cp, parent_id, child_id) == PosHas(cp, child_id)

\* `if parent_id in company_positions and company_id in company_positions`
DrawsConnection(cp, parent_id, child_id) == PosHas(cp, parent_id) /\ PosHas(cp, child_id)

RECURSIVE SvgRefConnections(_, _, _, _)
SvgRefConnections(refs, child_id, cp, lc) ==
    IF refs = <<>> THEN <<>>
    ELSE LET ref == Head(refs)
         IN  (IF ref.k \in {"str", "dict"} /\ DrawsConnection(cp, ref.id, child_id)
              THEN <<SvgSingleConnection(ref.id, child_id, cp, lc, RawPct(ref))>>
              ELSE <<>>)
             \o SvgRefConnections(Tail(refs), child_id, cp, lc)

\* SVGGenerator._generate_connections
RECURSIVE SvgConnections(_, _, _)
SvgConnections(items, cp, lc) ==
    IF items = <<>> THEN <<>>
    ELSE SvgRefConnections(Head(items).parents, Head(items).id, cp, lc)
         \o SvgConnections(Tail(items), cp, lc)

\* company_positions[parent_id] / company_positions[child_id] of
\* _generate_single_connection raise KeyError on an id that has no level
SvgLookupFails(cd, cp) ==
    \E i \in 1..Len(cd.items) : \E j \in 1..Len(cd.items[i].parents) :
        LET ref == cd.items[i].parents[j]
        IN  /\ ref.k \in {"str", "dict"}
            /\ DrawsConnection(cp, ref.id, cd.items[i].id)
            /\ ~(PosHas(cp, ref.id) /\ PosHas(cp, cd.items[i].id))

\* the exception _generate_connections ends with ("" when it returns)
SvgConnectionsRaise(cd, cp) ==
    IF ScanRaises(cd) THEN "TypeError"
    ELSE IF SvgLookupFails(cd, cp) THEN "KeyError"
    ELSE ""

\* the value CompanyStructureGenerator hands to _get_connection_style: the raw
\* percentage, compared with the float thresholds (a str or a list raises TypeError)
PlotlyStyleArg(raw) == IF raw.t = "num" THEN Some(raw.v) ELSE Absent
PlotlyStyleRaises(raw) == raw.t \in {"str", "other"}

PlotlySingleConnection(parent_id, child_id, lc, raw) ==
    LET parent_pos == GetCompanyPosition(parent_id, lc)
        child_pos == GetCompanyPosition(child_id, lc)
    IN  [parent |-> parent_id, child |-> child_id,
         x1 |-> parent_pos.x, y1 |-> parent_pos.y - BOX_HEIGHT \div 2,
         x2 |-> child_pos.x, y2 |-> child_pos.y + BOX_HEIGHT \div 2,
         style |-> GetConnectionStyle(PlotlyStyleArg(raw)),
         stroke_width |-> CONNECTION_STYLES(GetConnectionStyle(PlotlyStyleArg(raw))).stroke_width,
         stroke_dasharray |->
             CONNECTION_STYLES(GetConnectionStyle(PlotlyStyleArg(raw))).stroke_dasharray,
         label |-> SanitizePercentage(raw)]

RECURSIVE PlotlyRefConnections(_, _, _)
PlotlyRefConnections(refs, child_id, lc) ==
    IF refs = <<>> THEN <<>>
    ELSE LET ref == Head(refs)
         IN  (IF /\ ref.k \in {"str", "dict"}
                 /\ Placed(lc, ref.id) /\ Placed(lc, child_id)
              THEN <<PlotlySingleConnection(ref.id, child_id, lc, RawPct(ref))>>
              ELSE <<>>)
             \o PlotlyRefConnections(Tail(refs), child_id, lc)

\* CompanyStructureGenerator._add_connections
RECURSIVE PlotlyConnections(_, _)
PlotlyConnections(items, lc) ==
    IF items = <<>> THEN <<>>
    ELSE PlotlyRefConnections(Head(items).parents, Head(items).id, lc)
         \o PlotlyConnections(Tail(items), lc)

\* _add_connections raises when a drawn reference's raw percentage cannot be compared
PlotlyConnectionsRaise(cd, lc) ==
    \E i \in 1..Len(cd.items) : \E j \in 1..Len(cd.items[i].parents) :
        LET ref == cd.items[i].parents[j]
        IN  /\ ref.k \in {"str", "dict"}
            /\ Placed(lc, ref.id) /\ Placed(lc, cd.items[i].id)
            /\ PlotlyStyleRaises(RawPct(ref))

----------------------------------------------------------------------------
(* Boxes *)

\* rectangles of one level that ignore the index in the level
SvgLevelBoxesStacked(level, ids) ==
    [i \in 1..Len(ids) |->
        LET x == StartX(Len(ids))
            y == Y_OFFSET + level * SVG_HEIGHT_PER_LEVEL
        IN  [id |-> ids[i], x0 |-> x, y0 |-> y, x1 |-> x + BOX_WIDTH, y1 |-> y + BOX_HEIGHT]]

\* rectangles whose focus box grows by the width of its thicker border
SvgLevelBoxesFocusGrows(level, ids) ==
    [i \in 1..Len(ids) |->
        LET x == StartX(Len(ids)) + (i - 1) * (BOX_WIDTH + BOX_MARGIN)
            y == Y_OFFSET + level * SVG_HEIGHT_PER_LEVEL
            grow == IF focus_company # "" /\ ids[i] = focus_company THEN 4 ELSE 0
        IN  [id |-> ids[i], x0 |-> x - grow, y0 |-> y - grow,
             x1 |-> x + BOX_WIDTH + grow, y1 |-> y + BOX_HEIGHT + grow]]

\* the rectangles of one level, SVGGenerator._generate_company_boxes
SvgLevelBoxes(level, ids) ==
    [i \in 1..Len(ids) |->
        LET x == StartX(Len(ids)) + (i - 1) * (BOX_WIDTH + BOX_MARGIN)
            y == Y_OFFSET + level * SVG_HEIGHT_PER_LEVEL
        IN  [id |-> ids[i], x0 |-> x, y0 |-> y, x1 |-> x + BOX_WIDTH, y1 |-> y + BOX_HEIGHT]]

\* the rectangles of one level, CompanyStructureGenerator._add_company_boxes
PlotlyLevelBoxes(level, ids, top) ==
    [i \in 1..Len(ids) |->
        LET x == StartX(Len(ids)) + (i - 1) * (BOX_WIDTH + BOX_MARGIN) + BOX_WIDTH \div 2
            y == Y_OFFSET + (top - level) * SVG_HEIGHT_PER_LEVEL + BOX_HEIGHT \div 2
        IN  [id |-> ids[i], x0 |-> x - BOX_WIDTH \div 2, y0 |-> y - BOX_HEIGHT \div 2,
             x1 |-> x + BOX_WIDTH \div 2, y1 |-> y + BOX_HEIGHT \div 2]]

\* `for level in sorted(level_companies.keys())`, from level `from` on
RECURSIVE BoxesFrom(_, _, _)
BoxesFrom(g, lc, from) ==
    IF from > TopLevel(lc) THEN <<>>
    ELSE (IF from \in DOMAIN lc
          THEN IF g = "svg" THEN SvgLevelBoxes(from, lc[from])
               ELSE PlotlyLevelBoxes(from, lc[from], TopLevel(lc))
          ELSE <<>>)
         \o BoxesFrom(g, lc, from + 1)
CompanyBoxes(g, lc) == BoxesFrom(g, lc, 0)

\* `company_data = companies_data[company_id]` of the box loops raises KeyError
\* on a grouped id that is no key of the mapping
BoxLookupFails(cd, lc) ==
    \E level \in DOMAIN lc : \E k \in 1..Len(lc[level]) :
        lc[level][k] \notin {cd.items[i].id : i \in 1..Len(cd.items)}

\* a height that counts the rows only, without the base height
DocumentHeightRowsOnly(level) == (level + 1) * SVG_HEIGHT_PER_LEVEL

\* height of the document: SVG_HEIGHT_BASE + (max_level + 1) * SVG_HEIGHT_PER_LEVEL
DocumentHeight(level) == SVG_HEIGHT_BASE + (level + 1) * SVG_HEIGHT_PER_LEVEL

----------------------------------------------------------------------------
(* Results and exceptions *)

NoResult == [kind |-> "none", fmt |-> "", width |-> 0, height |-> 0, message |-> ""]

\* what generate_company_diagram returns from its try block
Diagram(g, height) ==
    [kind |-> "diagram", fmt |-> IF g = "svg" THEN "str" ELSE "bytes",
     width |-> SVG_WIDTH, height |-> height, message |-> ""]

\* _generate_error_svg(str(e))
GenerateErrorSvg(e) ==
    [kind |-> "error_svg", fmt |-> "str", width |-> ERROR_SVG_WIDTH,
     height |-> ERROR_SVG_HEIGHT, message |-> e]

\* the exceptions the pipeline can raise; all derive from Exception
Exceptions == {"AttributeError", "TypeError", "KeyError", "RecursionError"}

\* an except clause that names TypeError only
GeneratorCatchesTypeErrorOnly(e) == e = "TypeError"

\* `except Exception` of the two generate_company_diagram methods
GeneratorCatches(e) == e \in Exceptions

\* `except Exception` of DrawingsMCPServer.company_structure
EndpointCatches(e) == e \in Exceptions

\* calculate_level without its cycle guard
AlreadyVisitedNever(id, vis) == FALSE

\* `if company_id in visited` of calculate_level
AlreadyVisited(id, vis) == id \in vis

\* where the call continues once _calculate_hierarchy_levels has returned
AfterLevels(g) == IF g = "svg" THEN "header" ELSE "group"

\* where the call continues once the generator has returned or raised
AfterGenerator(g) == IF g = "endpoint" THEN "endpoint" ELSE "done"

EmptyMap == [x \in {} |-> 0]

NoFailure == [name |-> "", at |-> ""]

\* the first step of a call: the SVG generator selects its styles first
FirstStep(g) == IF g = "svg" THEN "styles" ELSE "start"

\* BaseMCPServer.__init__: self.endpoints = {}
NoEndpoints == [n \in {} |-> ""]

NoCall == [name |-> "", server |-> "", n |-> 0]

----------------------------------------------------------------------------
(* Styling: COLOR_CATEGORIES of constants.py and the companion parameters   *)
(* color_category, custom_colors and focus_company                          *)

\* a colour "#RRGGBB" as its three channels
Hex(r, g, b) == <<r, g, b>>

\* _darken_color: every channel times 0.8, truncated by int()
DarkenColor(c) == [i \in 1..3 |-> (c[i] * 8) \div 10]

\* a style entry without a stroke_width key, and the focus entry that has one
Style(fill, stroke) ==
    [fill_color |-> fill, stroke_color |-> stroke, has_stroke_width |-> FALSE,
     stroke_width |-> 0]
FocusStyle(fill, stroke) ==
    [fill_color |-> fill, stroke_color |-> stroke, has_stroke_width |-> TRUE,
     stroke_width |-> 4]

\* the entity types of a preset; investor, trust and foundation are entries of
\* the same shape as person and are handled by the same branches
EntityTypes == {"person", "company", "focus_company"}

\* COLOR_CATEGORIES as constants.py defines it (three of its six presets)
ShippedColorCategories ==
    [c \in {"vibrant", "professional", "custom"} |->
        [t \in EntityTypes |->
            CASE c = "vibrant" /\ t = "person" ->
                    Style(Hex(255, 107, 107), Hex(204, 85, 85))
              [] c = "vibrant" /\ t = "company" ->
                    Style(Hex(74, 144, 226), Hex(46, 92, 138))
              [] c = "vibrant" /\ t = "focus_company" ->
                    FocusStyle(Hex(255, 217, 61), Hex(255, 0, 0))
              [] c = "professional" /\ t = "person" ->
                    Style(Hex(52, 73, 94), Hex(44, 62, 80))
              [] c = "professional" /\ t = "company" ->
                    Style(Hex(46, 134, 171), Hex(27, 79, 114))
              [] c = "professional" /\ t = "focus_company" ->
                    FocusStyle(Hex(230, 126, 34), Hex(255, 0, 0))
              [] c = "custom" /\ t = "person" ->
                    Style(Hex(255, 107, 107), Hex(204, 85, 85))
              [] c = "custom" /\ t = "company" ->
                    Style(Hex(74, 144, 226), Hex(46, 92, 138))
              [] c = "custom" /\ t = "focus_company" ->
                    FocusStyle(Hex(255, 217, 61), Hex(255, 0, 0))]]

\* custom_colors: None, or a dict from keys to colours
NoColors == [k \in {} |-> <<>>]
None == [given |-> FALSE, d |-> NoColors]
ColorDict(d) == [given |-> TRUE, d |-> d]

\* `if custom_colors`: neither None nor an empty dict
Truthy(cc) == cc.given /\ DOMAIN cc.d # {}

\* custom_colors.get(key, default)
ColorGet(cc, key, default) == IF key \in DOMAIN cc.d THEN cc.d[key] ELSE default

\* the entity_styles the "custom" branch builds from custom_colors
CustomEntityStyles(cc) ==
    [t \in EntityTypes |->
        CASE t = "person" ->
                Style(ColorGet(cc, "person_color", Hex(255, 107, 107)),
                      DarkenColor(ColorGet(cc, "person_color", Hex(255, 107, 107))))
          [] t = "company" ->
                Style(ColorGet(cc, "company_color", Hex(74, 144, 226)),
                      DarkenColor(ColorGet(cc, "company_color", Hex(74, 144, 226))))
          [] t = "focus_company" ->
                FocusStyle(ColorGet(cc, "focus_company_color", Hex(255, 217, 61)),
                           ColorGet(cc, "focus_company_border", Hex(255, 0, 0)))]

\* the key COLOR_CATEGORIES.get(color_category, COLOR_CATEGORIES["professional"]) reads
SelectedCategory(cats, category) ==
    IF category \in DOMAIN cats THEN category ELSE "professional"

\* the overrides written into the selected preset's entries
OverrideStyles(styles, cc) ==
    IF Truthy(cc) /\ "focus_company" \in DOMAIN styles
    THEN [t \in DOMAIN styles |->
            IF t = "focus_company"
            THEN [styles[t] EXCEPT
                    !.fill_color = ColorGet(cc, "focus_company_color", @),
                    !.stroke_color = ColorGet(cc, "focus_company_border", @)]
            ELSE [styles[t] EXCEPT
                    !.stroke_color = ColorGet(cc, "border_color", @)]]
    ELSE styles

\* `if color_category == "custom" and custom_colors`
BuildsCustomStyles(category, cc) == category = "custom" /\ Truthy(cc)

\* entity_styles of the call
SelectEntityStylesOf(cats, category, cc) ==
    IF BuildsCustomStyles(category, cc)
    THEN CustomEntityStyles(cc)
    ELSE OverrideStyles(cats[SelectedCategory(cats, category)], cc)

\* COLOR_CATEGORIES after the call: entity_styles is the preset's own dict, so
\* the overrides are written into the preset
CategoriesAfter(cats, category, cc) ==
    IF BuildsCustomStyles(category, cc)
    THEN cats
    ELSE [cats EXCEPT ![SelectedCategory(cats, category)] = OverrideStyles(@, cc)]

\* the style of one rectangle, _generate_company_boxes and _generate_entity_shape;
\* the entities of the inputs carry no 'type', so entity_type is 'company'
SvgBoxStyle(id, styles, focus) ==
    LET entity_style == IF focus # "" /\ id = focus
                        THEN styles["focus_company"] ELSE styles["company"]
    IN  [id |-> id, fill |-> entity_style.fill_color,
         stroke |-> entity_style.stroke_color,
         stroke_width |-> IF entity_style.has_stroke_width
                          THEN entity_style.stroke_width ELSE 2]

\* DEFAULT_COLORS of company_structure.py's import; constants.py defines none,
\* the values are the fallbacks the SVG generator uses for the same keys
DEFAULT_COLORS(key) ==
    CASE key = "person_color" -> Hex(255, 107, 107)
      [] key = "company_color" -> Hex(74, 144, 226)
      [] key = "focus_company_color" -> Hex(255, 217, 61)
      [] key = "focus_company_stroke" -> Hex(255, 0, 0)

\* `colors` of _create_plotly_figure
PlotlyColors(cc) ==
    [t \in EntityTypes |->
        CASE t = "person" -> ColorGet(cc, "person_color", DEFAULT_COLORS("person_color"))
          [] t = "company" -> ColorGet(cc, "company_color", DEFAULT_COLORS("company_color"))
          [] t = "focus_company" ->
                ColorGet(cc, "focus_company_color", DEFAULT_COLORS("focus_company_color"))]

\* custom_colors.get on None raises AttributeError
PlotlyColorsRaise(cc) == ~cc.given

\* the style of one rectangle, CompanyStructureGenerator._add_company_boxes
PlotlyBoxStyle(id, colors, cc, focus) ==
    IF focus # "" /\ id = focus
    THEN [id |-> id, fill |-> colors["focus_company"],
          stroke |-> ColorGet(cc, "focus_company_border",
                              DEFAULT_COLORS("focus_company_stroke")),
          stroke_width |-> 4]
    ELSE [id |-> id, fill |-> colors["company"],
          stroke |-> DarkenColor(colors["company"]), stroke_width |-> 2]

\* the styles of the rectangles `bs`, in their order
BoxStyles(g, bs, styles, cc, focus) ==
    [k \in 1..Len(bs) |->
        IF g = "svg" THEN SvgBoxStyle(bs[k].id, styles, focus)
        ELSE PlotlyBoxStyle(bs[k].id, styles, cc, focus)]

NoStyles == [t \in {} |-> <<>>]

\* the arguments of a call that passes the companion parameters' defaults:
\* color_category="professional", custom_colors=None, focus_company="" for the
\* SVG generator; the Plotly generator requires custom_colors, here an empty dict
DefaultColors(g) == IF g = "svg" THEN None ELSE ColorDict(NoColors)

----------------------------------------------------------------------------
(* The state machine of one diagram call *)

\* the locals of a call before its first statement
FreshLocals ==
    /\ root_companies = <<>>
    /\ root_index = 1
    /\ company_positions = <<>>
    /\ visited = {}
    /\ stack = <<>>
    /\ max_level = 0
    /\ reached_via = EmptyMap
    /\ recorded = <<>>
    /\ level_companies = EmptyMap
    /\ svg_height = 0
    /\ boxes = <<>>
    /\ connections = <<>>
    /\ exc = ""
    /\ failure = NoFailure
    /\ result = NoResult
    /\ entity_styles = NoStyles
    /\ box_styles = <<>>

CallStart == pc = FirstStep(gen) /\ FreshLocals

\* no tool call: the fields of a call record
NoTool == [tool |-> "", base_id |-> "", table |-> "", ok |-> FALSE, table_id |-> "",
           asked |-> FALSE, follows |-> ""]

\* no batch tool is running
NoBatch == [tool |-> "", items |-> <<>>, i |-> 1, created |-> 0, updated |-> 0,
            deleted |-> 0, errors |-> <<>>, table_id |-> "", at |-> "idle"]

\* no NocoDB endpoint is under study
NoDatabase ==
    /\ schema_cache = EmptyMap
    /\ remote_tables = EmptyMap
    /\ noco = NoTool
    /\ noco_calls = 0
    /\ batch = NoBatch

\* no server is under study
NoServer ==
    /\ main_pc = "none"
    /\ nocodb_configured = FALSE
    /\ endpoints = NoEndpoints
    /\ mounted = <<>>
    /\ call = NoCall
    /\ raised = ""
    /\ exit_status = -1

\* one diagram call with the companion parameters left at their defaults
Init ==
    /\ \/ /\ companies_data \in LayoutInputs \cup PctInputs \cup ConvergingInputs
                                              \cup RegroupInputs \cup WideInputs
          /\ gen \in {"svg", "plotly"}
       \/ companies_data \in MalformedInputs /\ gen \in {"svg", "plotly", "endpoint"}
    /\ color_category = "professional"
    /\ custom_colors = DefaultColors(gen)
    /\ focus_company = ""
    /\ COLOR_CATEGORIES = ShippedColorCategories
    /\ earlier = <<>>
    /\ CallStart
    /\ NoServer
    /\ NoDatabase

\* the style selection that opens the SVG generator's try block
SelectEntityStyles ==
    /\ pc = "styles"
    /\ entity_styles' = SelectEntityStylesOf(COLOR_CATEGORIES, color_category,
                                             custom_colors)
    /\ COLOR_CATEGORIES' = CategoriesAfter(COLOR_CATEGORIES, color_category,
                                           custom_colors)
    /\ pc' = "start"
    /\ UNCHANGED <<gen, companies_data, root_companies, root_index, company_positions,
                   visited, stack, max_level, reached_via, recorded, level_companies,
                   svg_height, boxes, connections, exc, failure, result>>
    /\ UNCHANGED <<color_category, custom_colors, focus_company, box_styles, earlier>>
    /\ UNCHANGED <<serverVars, nocoVars>>

\* an exception leaves the try block: the frames unwind to the except clause
Raise(e) ==
    /\ exc' = e
    /\ failure' = [name |-> e, at |-> pc]
    /\ pc' = "except"
    /\ stack' = <<>>

\* root_companies = self._find_root_companies(companies_data)
FindRoots ==
    /\ pc = "start"
    /\ IF FindRootsRaises(companies_data)
       THEN /\ Raise("AttributeError")
            /\ UNCHANGED root_companies
       ELSE /\ root_companies' = FindRootCompanies(companies_data)
            /\ pc' = IF FindRootCompanies(companies_data) = <<>>
                     THEN AfterLevels(gen) ELSE "levels"
            /\ UNCHANGED <<exc, stack, failure>>
    /\ UNCHANGED <<gen, companies_data, root_index, company_positions, visited,
                   max_level, reached_via, level_companies, svg_height, boxes,
                   connections, result>>
    /\ UNCHANGED recorded
    /\ UNCHANGED <<styleVars, serverVars, nocoVars>>

\* an activation that leaves one level free below the roots
NewFrameSkippingLevel(id, level) ==
    LET deeper == IF level = 0 THEN 0 ELSE level + 1
    IN  [id |-> id, level |-> deeper, entered |-> FALSE, children |-> <<>>, idx |-> 1,
         current_max |-> deeper]

\* the activation record of calculate_level(company_id, level, visited)
NewFrame(id, level) ==
    [id |-> id, level |-> level, entered |-> FALSE, children |-> <<>>, idx |-> 1,
     current_max |-> level]

\* `for root in root_companies: ... calculate_level(root)`: level 0, a new visited set
CallRoot ==
    /\ pc = "levels"
    /\ stack = <<>>
    /\ root_index <= Len(root_companies)
    /\ stack' = <<NewFrame(root_companies[root_index], 0)>>
    /\ visited' = {}
    /\ UNCHANGED <<gen, companies_data, pc, root_companies, root_index,
                   company_positions, max_level, reached_via, level_companies,
                   svg_height, boxes, connections, exc, result>>
    /\ UNCHANGED failure
    /\ UNCHANGED recorded
    /\ UNCHANGED <<styleVars, serverVars, nocoVars>>

\* the caller receives ret from the frame on top of the stack
ReturnTo(ret) ==
    LET rest == SubSeq(stack, 1, Len(stack) - 1)
    IN  IF rest = <<>>
        THEN /\ max_level' = Max(max_level, ret)
             /\ root_index' = root_index + 1
             /\ stack' = <<>>
             /\ pc' = IF root_index + 1 > Len(root_companies)
                      THEN AfterLevels(gen) ELSE "levels"
        ELSE /\ stack' = [rest EXCEPT ![Len(rest)].current_max = Max(@, ret),
                                      ![Len(rest)].idx = @ + 1]
             /\ UNCHANGED <<max_level, root_index, pc>>

\* calculate_level on an id already in visited: `return level`
ReturnVisited ==
    /\ pc = "levels"
    /\ stack # <<>>
    /\ LET top == stack[Len(stack)]
       IN  /\ ~top.entered
           /\ AlreadyVisited(top.id, visited)
           /\ ReturnTo(top.level)
    /\ UNCHANGED <<gen, companies_data, root_companies, company_positions, visited,
                   reached_via, level_companies, svg_height, boxes, connections,
                   exc, result>>
    /\ UNCHANGED failure
    /\ UNCHANGED recorded
    /\ UNCHANGED <<styleVars, serverVars, nocoVars>>

\* calculate_level on a new id: mark it, record its level, collect its children
Visit ==
    /\ pc = "levels"
    /\ stack # <<>>
    /\ LET top == stack[Len(stack)]
           caller == IF Len(stack) = 1 THEN "" ELSE stack[Len(stack) - 1].id
       IN  /\ ~top.entered
           /\ ~AlreadyVisited(top.id, visited)
           /\ visited' = visited \cup {top.id}
           /\ company_positions' = PosPut(company_positions, top.id, top.level)
           /\ recorded' = Append(recorded, [id |-> top.id, level |-> top.level,
                                             via |-> caller,
                                             root |-> root_companies[root_index]])
           /\ reached_via' = [x \in DOMAIN reached_via \cup {top.id} |->
                                 IF x = top.id THEN caller ELSE reached_via[x]]
           /\ IF ScanRaises(companies_data)
              THEN Raise("TypeError")
              ELSE /\ stack' = [stack EXCEPT ![Len(stack)].entered = TRUE,
                                             ![Len(stack)].children =
                                                 ChildrenOf(companies_data, top.id)]
                   /\ UNCHANGED <<pc, exc, failure>>
    /\ UNCHANGED <<gen, companies_data, root_companies, root_index, max_level,
                   level_companies, svg_height, boxes, connections, result>>
    /\ UNCHANGED <<styleVars, serverVars, nocoVars>>

\* `child_level = calculate_level(child_id, level + 1, visited)`
CallChild ==
    /\ pc = "levels"
    /\ stack # <<>>
    /\ LET top == stack[Len(stack)]
       IN  /\ top.entered
           /\ top.idx <= Len(top.children)
           /\ IF Len(stack) >= MaxDepth
              THEN Raise("RecursionError")
              ELSE /\ stack' = Append(stack, NewFrame(top.children[top.idx], top.level + 1))
                   /\ UNCHANGED <<pc, exc, failure>>
    /\ UNCHANGED <<gen, companies_data, root_companies, root_index, company_positions,
                   visited, max_level, reached_via, level_companies, svg_height,
                   boxes, connections, result>>
    /\ UNCHANGED recorded
    /\ UNCHANGED <<styleVars, serverVars, nocoVars>>

\* the children loop is over: `return current_max`
Return ==
    /\ pc = "levels"
    /\ stack # <<>>
    /\ LET top == stack[Len(stack)]
       IN  /\ top.entered
           /\ top.idx > Len(top.children)
           /\ ReturnTo(top.current_max)
    /\ UNCHANGED <<gen, companies_data, root_companies, company_positions, visited,
                   reached_via, level_companies, svg_height, boxes, connections,
                   exc, result>>
    /\ UNCHANGED failure
    /\ UNCHANGED recorded
    /\ UNCHANGED <<styleVars, serverVars, nocoVars>>

\* svg_content = self._generate_svg_header(max_level, ...)
GenerateSvgHeader ==
    /\ pc = "header"
    /\ svg_height' = DocumentHeight(max_level)
    /\ pc' = "group"
    /\ UNCHANGED <<gen, companies_data, root_companies, root_index, company_positions,
                   visited, stack, max_level, reached_via, level_companies, boxes,
                   connections, exc, result>>
    /\ UNCHANGED failure
    /\ UNCHANGED recorded
    /\ UNCHANGED <<styleVars, serverVars, nocoVars>>

\* level_companies = self._group_companies_by_level(company_positions)
GroupByLevel ==
    /\ pc = "group"
    /\ level_companies' = GroupCompaniesByLevel(company_positions)
    /\ pc' = IF gen = "svg" THEN "svg_connections" ELSE "plotly_boxes"
    /\ UNCHANGED <<gen, companies_data, root_companies, root_index, company_positions,
                   visited, stack, max_level, reached_via, svg_height, boxes,
                   connections, exc, result>>
    /\ UNCHANGED failure
    /\ UNCHANGED recorded
    /\ UNCHANGED <<styleVars, serverVars, nocoVars>>

\* svg_content += self._generate_connections(...)
SvgGenerateConnections ==
    /\ pc = "svg_connections"
    /\ IF SvgConnectionsRaise(companies_data, company_positions) # ""
       THEN /\ Raise(SvgConnectionsRaise(companies_data, company_positions))
            /\ UNCHANGED connections
       ELSE /\ connections' = SvgConnections(companies_data.items, company_positions,
                                             level_companies)
            /\ pc' = "svg_boxes"
            /\ UNCHANGED <<exc, stack, failure>>
    /\ UNCHANGED <<gen, companies_data, root_companies, root_index, company_positions,
                   visited, max_level, reached_via, level_companies, svg_height,
                   boxes, result>>
    /\ UNCHANGED recorded
    /\ UNCHANGED <<styleVars, serverVars, nocoVars>>

\* svg_content += self._generate_company_boxes(...); return svg_content
SvgGenerateBoxes ==
    /\ pc = "svg_boxes"
    /\ IF BoxLookupFails(companies_data, level_companies)
       THEN /\ Raise("KeyError")
            /\ UNCHANGED <<boxes, box_styles, result>>
       ELSE /\ boxes' = CompanyBoxes("svg", level_companies)
            /\ box_styles' = BoxStyles("svg", CompanyBoxes("svg", level_companies),
                                       entity_styles, custom_colors, focus_company)
            /\ result' = Diagram("svg", svg_height)
            /\ pc' = AfterGenerator(gen)
            /\ UNCHANGED <<exc, stack, failure>>
    /\ UNCHANGED <<gen, companies_data, root_companies, root_index, company_positions,
                   visited, max_level, reached_via, level_companies,
                   svg_height, connections>>
    /\ UNCHANGED recorded
    /\ UNCHANGED <<color_category, custom_colors, focus_company, COLOR_CATEGORIES,
                   entity_styles, earlier>>
    /\ UNCHANGED <<serverVars, nocoVars>>

\* _create_plotly_figure: colors = {...}, then self._add_company_boxes(...)
PlotlyAddBoxes ==
    /\ pc = "plotly_boxes"
    /\ IF PlotlyColorsRaise(custom_colors)
       THEN /\ Raise("AttributeError")
            /\ UNCHANGED <<boxes, entity_styles, box_styles>>
       ELSE IF BoxLookupFails(companies_data, level_companies)
       THEN /\ Raise("KeyError")
            /\ entity_styles' = PlotlyColors(custom_colors)
            /\ UNCHANGED <<boxes, box_styles>>
       ELSE /\ entity_styles' = PlotlyColors(custom_colors)
            /\ boxes' = CompanyBoxes("plotly", level_companies)
            /\ box_styles' = BoxStyles("plotly", CompanyBoxes("plotly", level_companies),
                                       PlotlyColors(custom_colors), custom_colors,
                                       focus_company)
            /\ pc' = "plotly_connections"
            /\ UNCHANGED <<exc, stack, failure>>
    /\ UNCHANGED <<gen, companies_data, root_companies, root_index, company_positions,
                   visited, max_level, reached_via, level_companies,
                   svg_height, connections, result>>
    /\ UNCHANGED recorded
    /\ UNCHANGED <<color_category, custom_colors, focus_company, COLOR_CATEGORIES,
                   earlier>>
    /\ UNCHANGED <<serverVars, nocoVars>>

\* _create_plotly_figure: self._add_connections(...), then fig.update_layout
PlotlyAddConnections ==
    /\ pc = "plotly_connections"
    /\ IF ScanRaises(companies_data) \/ PlotlyConnectionsRaise(companies_data, level_companies)
       THEN /\ Raise("TypeError")
            /\ UNCHANGED <<connections, svg_height>>
       ELSE /\ connections' = PlotlyConnections(companies_data.items, level_companies)
            /\ svg_height' = DocumentHeight(max_level)
            /\ pc' = "to_image"
            /\ UNCHANGED <<exc, stack, failure>>
    /\ UNCHANGED <<gen, companies_data, root_companies, root_index, company_positions,
                   visited, max_level, reached_via, level_companies, boxes, result>>
    /\ UNCHANGED recorded
    /\ UNCHANGED <<styleVars, serverVars, nocoVars>>

\* svg_content = fig.to_image(format="svg", ...); return svg_content
PlotlyToImage ==
    /\ pc = "to_image"
    /\ result' = Diagram("plotly", DocumentHeight(max_level))
    /\ pc' = AfterGenerator(gen)
    /\ UNCHANGED <<gen, companies_data, root_companies, root_index, company_positions,
                   visited, stack, max_level, reached_via, level_companies,
                   svg_height, boxes, connections, exc>>
    /\ UNCHANGED failure
    /\ UNCHANGED recorded
    /\ UNCHANGED <<styleVars, serverVars, nocoVars>>

\* `except Exception as e: return self._generate_error_svg(str(e))`
HandleException ==
    /\ pc = "except"
    /\ IF GeneratorCatches(exc)
       THEN /\ result' = GenerateErrorSvg(exc)
            /\ exc' = ""
            /\ pc' = AfterGenerator(gen)
       ELSE /\ pc' = IF gen = "endpoint" THEN "endpoint" ELSE "raised"
            /\ UNCHANGED <<result, exc>>
    /\ UNCHANGED <<gen, companies_data, root_companies, root_index, company_positions,
                   visited, stack, max_level, reached_via, level_companies,
                   svg_height, boxes, connections>>
    /\ UNCHANGED failure
    /\ UNCHANGED recorded
    /\ UNCHANGED <<styleVars, serverVars, nocoVars>>

\* DrawingsMCPServer.company_structure after the generator call: encode a str,
\* pass bytes on, turn an exception into the encoded error placeholder
EndpointReturn ==
    /\ pc = "endpoint"
    /\ IF exc = ""
       THEN /\ result' = [result EXCEPT !.fmt = "bytes"]
            /\ pc' = "done"
            /\ UNCHANGED exc
       ELSE IF EndpointCatches(exc)
       THEN /\ result' = [GenerateErrorSvg(exc) EXCEPT !.fmt = "bytes"]
            /\ exc' = ""
            /\ pc' = "done"
       ELSE /\ pc' = "raised"
            /\ UNCHANGED <<result, exc>>
    /\ UNCHANGED <<gen, companies_data, root_companies, root_index, company_positions,
                   visited, stack, max_level, reached_via, level_companies,
                   svg_height, boxes, connections>>
    /\ UNCHANGED failure
    /\ UNCHANGED recorded
    /\ UNCHANGED <<styleVars, serverVars, nocoVars>>

Next ==
    \/ SelectEntityStyles
    \/ FindRoots
    \/ CallRoot
    \/ ReturnVisited
    \/ Visit
    \/ CallChild
    \/ Return
    \/ GenerateSvgHeader
    \/ GroupByLevel
    \/ SvgGenerateConnections
    \/ SvgGenerateBoxes
    \/ PlotlyAddBoxes
    \/ PlotlyAddConnections
    \/ PlotlyToImage
    \/ HandleException
    \/ EndpointReturn

Spec == Init /\ [][Next]_vars

----------------------------------------------------------------------------
(* Several diagram calls of one process, with the companion parameters *)

\* A and D are roots, B and C hang below A, C is reached twice
Diamond ==
    DictData(<<Entity("A", <<>>), Entity("B", <<StrRef("A")>>),
               Entity("C", <<StrRef("A"), DictRef("B", NumPct(600))>>),
               Entity("D", <<>>)>>)

ColorInputs == {Diamond, NoneData}

ColorCategoryChoices == {"professional", "custom", "neon"}

CustomColorChoices ==
    { None,
      ColorDict(NoColors),
      ColorDict([k \in {"border_color", "focus_company_color"} |->
                    IF k = "border_color" THEN Hex(0, 0, 0) ELSE Hex(17, 17, 17)]),
      ColorDict([k \in {"company_color", "focus_company_border"} |->
                    IF k = "company_color" THEN Hex(0, 170, 0) ELSE Hex(0, 0, 255)]) }

FocusChoices == {"", "D"}

\* the arguments a call may pass; color_category is a parameter of the SVG
\* generator only
ChosenParameters(g, category, cc, focus) ==
    /\ category \in IF g = "svg" THEN ColorCategoryChoices ELSE {"professional"}
    /\ cc \in CustomColorChoices
    /\ focus \in FocusChoices

\* what a call returned, with the arguments it was given
Output ==
    [gen |-> gen, color_category |-> color_category, custom_colors |-> custom_colors,
     focus_company |-> focus_company, result |-> result, failure |-> failure,
     root_companies |-> root_companies, level_companies |-> level_companies,
     company_positions |-> company_positions, max_level |-> max_level,
     boxes |-> boxes, connections |-> connections,
     entity_styles |-> entity_styles, box_styles |-> box_styles]

ColorInit ==
    /\ companies_data \in ColorInputs
    /\ gen \in {"svg", "plotly", "endpoint"}
    /\ ChosenParameters(gen, color_category, custom_colors, focus_company)
    /\ COLOR_CATEGORIES = ShippedColorCategories
    /\ earlier = <<>>
    /\ CallStart
    /\ NoServer
    /\ NoDatabase

\* the process calls generate_company_diagram again, on the same entity map
NextCall ==
    /\ pc = "done"
    /\ Len(earlier) < MaxCalls - 1
    /\ earlier' = Append(earlier, Output)
    /\ ChosenParameters(gen, color_category', custom_colors', focus_company')
    /\ pc' = FirstStep(gen)
    /\ root_companies' = <<>>
    /\ root_index' = 1
    /\ company_positions' = <<>>
    /\ visited' = {}
    /\ stack' = <<>>
    /\ max_level' = 0
    /\ reached_via' = EmptyMap
    /\ recorded' = <<>>
    /\ level_companies' = EmptyMap
    /\ svg_height' = 0
    /\ boxes' = <<>>
    /\ connections' = <<>>
    /\ exc' = ""
    /\ failure' = NoFailure
    /\ result' = NoResult
    /\ entity_styles' = NoStyles
    /\ box_styles' = <<>>
    /\ UNCHANGED <<gen, companies_data, COLOR_CATEGORIES>>
    /\ UNCHANGED <<serverVars, nocoVars>>

ColorNext ==
    \/ NextCall
    \/ SelectEntityStyles
    \/ FindRoots
    \/ CallRoot
    \/ ReturnVisited
    \/ Visit
    \/ CallChild
    \/ Return
    \/ GenerateSvgHeader
    \/ GroupByLevel
    \/ SvgGenerateConnections
    \/ SvgGenerateBoxes
    \/ PlotlyAddBoxes
    \/ PlotlyAddConnections
    \/ PlotlyToImage
    \/ HandleException
    \/ EndpointReturn

ColorSpec == ColorInit /\ [][ColorNext]_vars

----------------------------------------------------------------------------
(* The two generators, one after the other on the same entity map *)

PairInputs == LayoutInputs \cup PctInputs \cup RegroupInputs \cup {NoneData}

\* the SVG generator is called first, with the companion parameters' defaults
PairInit ==
    /\ companies_data \in PairInputs
    /\ gen = "svg"
    /\ color_category = "professional"
    /\ custom_colors = DefaultColors("svg")
    /\ focus_company = ""
    /\ COLOR_CATEGORIES = ShippedColorCategories
    /\ earlier = <<>>
    /\ CallStart
    /\ NoServer
    /\ NoDatabase

\* the SVG call has returned; the same entity map goes to
\* CompanyStructureGenerator, directly or through the endpoint
CallOtherGenerator ==
    /\ pc = "done"
    /\ gen = "svg"
    /\ earlier = <<>>
    /\ earlier' = <<Output>>
    /\ gen' \in {"plotly", "endpoint"}
    /\ custom_colors' = DefaultColors(gen')
    /\ pc' = FirstStep(gen')
    /\ root_companies' = <<>>
    /\ root_index' = 1
    /\ company_positions' = <<>>
    /\ visited' = {}
    /\ stack' = <<>>
    /\ max_level' = 0
    /\ reached_via' = EmptyMap
    /\ recorded' = <<>>
    /\ level_companies' = EmptyMap
    /\ svg_height' = 0
    /\ boxes' = <<>>
    /\ connections' = <<>>
    /\ exc' = ""
    /\ failure' = NoFailure
    /\ result' = NoResult
    /\ entity_styles' = NoStyles
    /\ box_styles' = <<>>
    /\ UNCHANGED <<companies_data, color_category, focus_company, COLOR_CATEGORIES>>
    /\ UNCHANGED <<serverVars, nocoVars>>

PairNext ==
    \/ CallOtherGenerator
    \/ SelectEntityStyles
    \/ FindRoots
    \/ CallRoot
    \/ ReturnVisited
    \/ Visit
    \/ CallChild
    \/ Return
    \/ GenerateSvgHeader
    \/ GroupByLevel
    \/ SvgGenerateConnections
    \/ SvgGenerateBoxes
    \/ PlotlyAddBoxes
    \/ PlotlyAddConnections
    \/ PlotlyToImage
    \/ HandleException
    \/ EndpointReturn

PairSpec == PairInit /\ [][PairNext]_vars

----------------------------------------------------------------------------
(* BaseMCPServer.register_endpoint (base_server.py) and main() (__main__.py) *)

EndpointServers == {"HealthMCPServer", "ExampleMCPServer", "NocoDBMCPServer", "object"}

EndpointNames == {"health", "example", "nocodb", "invalid"}

\* the registration methods each class defines
Methods(server) ==
    CASE server = "HealthMCPServer" -> {"_register_tools", "get_mcp_server"}
      [] server = "ExampleMCPServer" -> {"_register_tools", "get_mcp_server"}
      [] server = "NocoDBMCPServer" -> {"register_tools"}
      [] OTHER -> {}

HasAttr(server, name) == name \in Methods(server)

\* a check that lets every object through
HasRegisterToolsAlways(endpoint_server) == TRUE

\* hasattr(endpoint_server, 'register_tools')
HasRegisterTools(endpoint_server) == HasAttr(endpoint_server, "register_tools")

\* f"/{name}"
MountPath(name) == <<"/", name>>

\* register_endpoint(name, endpoint_server) on a server whose endpoints are eps
\* and whose mounted paths are mnt: the exception raised and the state left
RegisterEndpointOutcome(name, endpoint_server, eps, mnt) ==
    IF ~HasRegisterTools(endpoint_server)
    THEN [raised |-> "ValueError", endpoints |-> eps, mounted |-> mnt]
    ELSE IF ~HasAttr(endpoint_server, "register_tools")
    THEN [raised |-> "AttributeError", endpoints |-> eps, mounted |-> mnt]
    ELSE [raised |-> "",
          endpoints |-> [n \in DOMAIN eps \cup {name} |->
                            IF n = name THEN endpoint_server ELSE eps[n]],
          mounted |-> Append(mnt, MountPath(name))]

\* the parameters BaseMCPServer.run declares besides self, and the keyword
\* arguments main() passes to it
RunParameters == {}
RunArguments == {"transport", "port"}
RunRaises == ~(RunArguments \subseteq RunParameters)

\* the diagram variables while a server is under study
NoDiagram ==
    /\ gen = "svg"
    /\ companies_data = NoneData
    /\ pc = "idle"
    /\ FreshLocals
    /\ color_category = "professional"
    /\ custom_colors = None
    /\ focus_company = ""
    /\ COLOR_CATEGORIES = ShippedColorCategories
    /\ earlier = <<>>

diagramVars == <<gen, companies_data, pc, root_companies, root_index,
                 company_positions, visited, stack, max_level, reached_via, recorded,
                 level_companies, svg_height, boxes, connections, exc, failure,
                 result, styleVars>>

\* a new BaseMCPServer, used by a test ("test") or by main() ("nocodb")
ServerInit ==
    /\ \/ main_pc = "test" /\ nocodb_configured = FALSE
       \/ main_pc = "nocodb" /\ nocodb_configured \in BOOLEAN
    /\ endpoints = NoEndpoints
    /\ mounted = <<>>
    /\ call = NoCall
    /\ raised = ""
    /\ exit_status = -1
    /\ NoDiagram
    /\ NoDatabase

\* the call register_endpoint(name, endpoint_server) and what it leaves
Registers(name, endpoint_server) ==
    LET out == RegisterEndpointOutcome(name, endpoint_server, endpoints, mounted)
    IN  /\ call' = [name |-> name, server |-> endpoint_server, n |-> call.n + 1]
        /\ raised' = out.raised
        /\ endpoints' = out.endpoints
        /\ mounted' = out.mounted

\* a caller holding the server registers some object under some name
RegisterEndpoint ==
    /\ main_pc = "test"
    /\ call.n < MaxRegistrations
    /\ \E name \in EndpointNames, endpoint_server \in EndpointServers :
            Registers(name, endpoint_server)
    /\ UNCHANGED <<main_pc, nocodb_configured, exit_status>>
    /\ UNCHANGED <<diagramVars, nocoVars>>

\* main(): `if nocodb_server: main_server.register_endpoint("nocodb", nocodb_server)`
MainRegisterNocodb ==
    /\ main_pc = "nocodb"
    /\ IF nocodb_configured
       THEN /\ Registers("nocodb", "NocoDBMCPServer")
            /\ main_pc' = IF raised' = "" THEN "example" ELSE "crashed"
       ELSE /\ main_pc' = "example"
            /\ UNCHANGED <<call, raised, endpoints, mounted>>
    /\ UNCHANGED <<nocodb_configured, exit_status>>
    /\ UNCHANGED <<diagramVars, nocoVars>>

\* main(): the example endpoint is registered inside try/except Exception,
\* which logs a warning and goes on
MainRegisterExample ==
    /\ main_pc = "example"
    /\ Registers("example", "ExampleMCPServer")
    /\ main_pc' = "check"
    /\ UNCHANGED <<nocodb_configured, exit_status>>
    /\ UNCHANGED <<diagramVars, nocoVars>>

\* main(): `if not main_server.endpoints: ... sys.exit(1)`
MainCheckEndpoints ==
    /\ main_pc = "check"
    /\ IF DOMAIN endpoints = {}
       THEN exit_status' = 1 /\ main_pc' = "exited"
       ELSE main_pc' = "run" /\ UNCHANGED exit_status
    /\ UNCHANGED <<nocodb_configured, endpoints, mounted, call, raised>>
    /\ UNCHANGED <<diagramVars, nocoVars>>

\* main(): main_server.run(transport=..., port=...) inside try/except Exception,
\* whose handler calls sys.exit(1)
MainRun ==
    /\ main_pc = "run"
    /\ IF RunRaises
       THEN raised' = "TypeError" /\ exit_status' = 1 /\ main_pc' = "exited"
       ELSE main_pc' = "serving" /\ UNCHANGED <<raised, exit_status>>
    /\ UNCHANGED <<nocodb_configured, endpoints, mounted, call>>
    /\ UNCHANGED <<diagramVars, nocoVars>>

ServerNext ==
    \/ RegisterEndpoint
    \/ MainRegisterNocodb
    \/ MainRegisterExample
    \/ MainCheckEndpoints
    \/ MainRun

ServerSpec == ServerInit /\ [][ServerNext]_vars

----------------------------------------------------------------------------
(* nocodb/nocodb.py: the table-id cache and the schema tools *)

MaxToolCalls == 3
MaxBatchCalls == 1
MaxItems == 3

\* base ids a caller passes; "" is a missing argument
BaseIds == {"", "b1", "b2"}
\* table names a caller passes to the record tools
TableNames == {"customers", "orders"}
\* titles the NocoDB instance knows tables by
Titles == {"Customers", "Orders"}
\* ids the NocoDB instance gives to tables
TableIds == {"t1", "t2", "t3"}

\* `" ".join(word.capitalize() for word in table_name.split(" "))`
Capitalized(table_name) ==
    CASE table_name = "customers" -> "Customers"
      [] table_name = "orders" -> "Orders"
      [] OTHER -> table_name

\* `cache_key = f"{base_id}:{table_name}"`
CacheKey(base_id, table_name) == base_id \o ":" \o table_name

\* dict.pop(key, None)
Pop(d, key) == [k \in DOMAIN d \ {key} |-> d[k]]

\* the tables of a base as the remote API lists them
TablesOf(remote, base_id) == IF base_id \in DOMAIN remote THEN remote[base_id] ELSE {}

\* every table id the remote holds
RemoteIds(remote) == UNION {{tb.id : tb \in remote[b]} : b \in DOMAIN remote}

\* get_table_id(client, base_id, table_name): a cache hit returns at once;
\* otherwise the table list is requested, the title compared and the id cached
GetTableIdOutcome(cache, remote, base_id, table_name, http_ok) ==
    LET cache_key == CacheKey(base_id, table_name)
        found == {tb \in TablesOf(remote, base_id) : tb.title = Capitalized(table_name)}
    IN  IF cache_key \in DOMAIN cache
        THEN [raised |-> "", table_id |-> cache[cache_key].table_id, asked |-> FALSE,
              cache |-> cache]
        ELSE IF ~http_ok \/ found = {}
        THEN [raised |-> "ValueError", table_id |-> "", asked |-> TRUE, cache |-> cache]
        ELSE LET table_id == (CHOOSE tb \in found : TRUE).id
             IN  [raised |-> "", table_id |-> table_id, asked |-> TRUE,
                  cache |-> [k \in DOMAIN cache \cup {cache_key} |->
                                IF k = cache_key THEN [table_id |-> table_id]
                                ELSE cache[k]]]

\* the tools whose request leaves the table list as it is
ColumnAndCommentTools == {"add_column", "drop_column", "rename_column", "alter_column",
                          "add_table_comment", "add_column_comment"}

\* the remote API answers the request of a schema tool with success
RemoteAccepts(tool, remote, base_id, table_id, title, accepted) ==
    /\ accepted
    /\ IF tool = "create_table"
       THEN /\ base_id \in DOMAIN remote
            /\ TableIds \ RemoteIds(remote) # {}
            /\ \A tb \in remote[base_id] : tb.title # title
       ELSE table_id \in RemoteIds(remote)

\* the table list after a request the remote API accepted
RemoteAfter(tool, remote, base_id, table_id, title) ==
    CASE tool = "create_table" ->
            [remote EXCEPT ![base_id] =
                @ \cup {[id |-> CHOOSE n \in TableIds \ RemoteIds(remote) : TRUE,
                         title |-> title]}]
      [] tool = "drop_table" ->
            [b \in DOMAIN remote |-> {tb \in remote[b] : tb.id # table_id}]
      [] tool \in {"rename_table", "alter_table"} /\ title # "" ->
            [b \in DOMAIN remote |->
                {IF tb.id = table_id THEN [tb EXCEPT !.title = title] ELSE tb :
                    tb \in remote[b]}]
      [] OTHER -> remote

\* a schema tool: missing arguments return an error dict; a request the remote
\* API refuses raises, which `except Exception` turns into an error dict; after
\* a success `self._schema_cache.pop(base_id, None)` runs
SchemaToolOutcome(tool, cache, remote, base_id, table_id, title, accepted) ==
    IF base_id = "" \/ ~RemoteAccepts(tool, remote, base_id, table_id, title, accepted)
    THEN [ok |-> FALSE, cache |-> cache, remote |-> remote]
    ELSE [ok |-> TRUE, cache |-> Pop(cache, base_id),
          remote |-> RemoteAfter(tool, remote, base_id, table_id, title)]

\* a NocoDBMCPServer with an empty cache, in front of an instance with two bases
NocoInit ==
    /\ schema_cache = EmptyMap
    /\ remote_tables = [b \in {"b1", "b2"} |->
                           IF b = "b1" THEN {[id |-> "t1", title |-> "Customers"]}
                           ELSE {[id |-> "t2", title |-> "Customers"]}]
    /\ noco = NoTool
    /\ noco_calls = 0
    /\ batch = NoBatch
    /\ NoDiagram
    /\ NoServer

\* the tools that end with `self._schema_cache.pop(base_id, None)`
SchemaTools == {"create_table", "drop_table", "add_column", "drop_column",
                "alter_table", "rename_table", "rename_column", "alter_column",
                "add_table_comment", "add_column_comment"}

\* a tool is called: the calls are counted, and the record of the call keeps
\* the base of the schema tool call it directly follows, if that one succeeded
ToolCalled(record) ==
    /\ noco_calls < MaxToolCalls
    /\ batch.at # "loop"
    /\ noco_calls' = noco_calls + 1
    /\ noco' = [record EXCEPT !.follows =
                    IF noco.tool \in SchemaTools /\ noco.ok THEN noco.base_id ELSE ""]

\* a record tool (retrieve_records, create_records, get_schema, ...) resolves
\* its table: `table_id = await self.get_table_id(client, base_id, table_name)`
GetTableId ==
    /\ \E base_id \in BaseIds \ {""}, table_name \in TableNames, http_ok \in BOOLEAN :
        LET out == TheOne({GetTableIdOutcome(schema_cache, remote_tables, base_id,
                                             table_name, h) : h \in {http_ok}})
        IN  /\ ToolCalled([tool |-> "get_table_id", base_id |-> base_id,
                           table |-> table_name, ok |-> out.raised = "",
                           table_id |-> out.table_id, asked |-> out.asked,
                           follows |-> ""])
            /\ schema_cache' = out.cache
    /\ UNCHANGED <<remote_tables, batch>>
    /\ UNCHANGED <<diagramVars, serverVars>>

\* one schema tool call and what it leaves
SchemaToolCalled(tool, base_id, table_id, title, accepted) ==
    LET out == TheOne({SchemaToolOutcome(t, schema_cache, remote_tables, base_id,
                                         table_id, title, accepted) : t \in {tool}})
    IN  /\ ToolCalled([tool |-> tool, base_id |-> base_id, table |-> "",
                       ok |-> out.ok, table_id |-> "", asked |-> FALSE,
                       follows |-> ""])
        /\ schema_cache' = out.cache
        /\ remote_tables' = out.remote

\* create_table(base_id, table_schema)
CreateTable ==
    /\ \E base_id \in BaseIds, title \in Titles, accepted \in BOOLEAN :
           SchemaToolCalled("create_table", base_id, "", title, accepted)
    /\ UNCHANGED batch
    /\ UNCHANGED <<diagramVars, serverVars>>

\* drop_table(base_id, table_id)
DropTable ==
    /\ \E base_id \in BaseIds, table_id \in TableIds, accepted \in BOOLEAN :
           SchemaToolCalled("drop_table", base_id, table_id, "", accepted)
    /\ UNCHANGED batch
    /\ UNCHANGED <<diagramVars, serverVars>>

\* rename_table(base_id, table_id, new_name)
RenameTable ==
    /\ \E base_id \in BaseIds, table_id \in TableIds, new_name \in Titles,
          accepted \in BOOLEAN :
           SchemaToolCalled("rename_table", base_id, table_id, new_name, accepted)
    /\ UNCHANGED batch
    /\ UNCHANGED <<diagramVars, serverVars>>

\* alter_table(base_id, table_id, alterations), with or without a new title
AlterTable ==
    /\ \E base_id \in BaseIds, table_id \in TableIds, title \in Titles \cup {""},
          accepted \in BOOLEAN :
           SchemaToolCalled("alter_table", base_id, table_id, title, accepted)
    /\ UNCHANGED batch
    /\ UNCHANGED <<diagramVars, serverVars>>

\* add_column, drop_column, rename_column, alter_column, add_table_comment,
\* add_column_comment
ColumnOrCommentTool ==
    /\ \E tool \in ColumnAndCommentTools, base_id \in BaseIds, table_id \in TableIds,
          accepted \in BOOLEAN :
           SchemaToolCalled(tool, base_id, table_id, "", accepted)
    /\ UNCHANGED batch
    /\ UNCHANGED <<diagramVars, serverVars>>

----------------------------------------------------------------------------
(* nocodb/nocodb.py: the batch tools *)

\* `operation.get("type", "").lower()`, on the type values in use
Lower(type) ==
    CASE type = "UPDATE" -> "update"
      [] type = "absent" -> ""
      [] OTHER -> type

\* one operation of bulk_operations: its "type" ("none" is None, "absent" a
\* missing key) and which of "data" and "record_id" it carries
Operation(type, keys) == [type |-> type, keys |-> keys]

OperationKinds ==
    {Operation("create", {"data"}), Operation("create", {}),
     Operation("UPDATE", {"data", "record_id"}), Operation("update", {"data"}),
     Operation("delete", {"record_id"}), Operation("merge", {"data"}),
     Operation("none", {"data"}), Operation("absent", {"data"})}

\* one record of upsert_records: a dict carrying the unique key, a dict
\* without it, or None
RecordKinds == {[isdict |-> TRUE, haskey |-> TRUE], [isdict |-> TRUE, haskey |-> FALSE],
                [isdict |-> FALSE, haskey |-> FALSE]}

BatchesOf(kinds) == UNION {[1..n -> kinds] : n \in 0..MaxItems}

\* the body of `for operation in operations:`: the counter the operation adds
\* to, or "errors"; accepted is the remote API's answer to the request
BulkOutcome(operation, accepted) ==
    LET op_type == Lower(operation.type)
        needs == CASE op_type = "create" -> {"data"}
                   [] op_type = "update" -> {"record_id", "data"}
                   [] op_type = "delete" -> {"record_id"}
                   [] OTHER -> {}
    IN  IF operation.type = "none" THEN "errors"
        ELSE IF op_type \notin {"create", "update", "delete"} THEN "errors"
        ELSE IF ~(needs \subseteq operation.keys) THEN "errors"
        ELSE IF ~accepted THEN "errors"
        ELSE CASE op_type = "create" -> "created"
               [] op_type = "update" -> "updated"
               [] op_type = "delete" -> "deleted"

\* the body of `for record in data:`: the lookup by unique key, then the
\* update of the record found or the creation of a new one
UpsertOutcome(record, lookup_ok, exists, accepted) ==
    IF ~record.isdict THEN "errors"
    ELSE IF ~lookup_ok THEN "errors"
    ELSE IF ~accepted THEN "errors"
    ELSE IF exists THEN "updated"
    ELSE "created"

TalliedStoppingAtError(b, outcome) ==
    CASE outcome = "created" -> [b EXCEPT !.created = @ + 1, !.i = @ + 1]
      [] outcome = "updated" -> [b EXCEPT !.updated = @ + 1, !.i = @ + 1]
      [] outcome = "deleted" -> [b EXCEPT !.deleted = @ + 1, !.i = @ + 1]
      [] OTHER -> [b EXCEPT !.errors = Append(@, b.i), !.i = Len(b.items) + 1]

\* the counters after one item: `results[...] += 1` or `errors.append(...)`,
\* and the loop goes on to the next item
Tallied(b, outcome) ==
    CASE outcome = "created" -> [b EXCEPT !.created = @ + 1, !.i = @ + 1]
      [] outcome = "updated" -> [b EXCEPT !.updated = @ + 1, !.i = @ + 1]
      [] outcome = "deleted" -> [b EXCEPT !.deleted = @ + 1, !.i = @ + 1]
      [] OTHER -> [b EXCEPT !.errors = Append(@, b.i), !.i = @ + 1]

\* the entry of a batch tool: the `if not all([...])` guard, then the lookup
\* of the table id, whose exception ends the tool with an error dict
BatchStarted(tool, base_id, table_name, items, http_ok) ==
    LET out == TheOne({GetTableIdOutcome(schema_cache, remote_tables, base_id,
                                         table_name, h) : h \in {http_ok}})
        rejected == base_id = "" \/ items = <<>>
    IN  /\ noco_calls < MaxBatchCalls
        /\ ToolCalled([tool |-> tool, base_id |-> base_id, table |-> table_name,
                       ok |-> ~rejected /\ out.raised = "",
                       table_id |-> IF rejected THEN "" ELSE out.table_id,
                       asked |-> ~rejected /\ out.asked, follows |-> ""])
        /\ schema_cache' = IF rejected THEN schema_cache ELSE out.cache
        /\ batch' = [NoBatch EXCEPT !.tool = tool, !.items = items,
                        !.table_id = IF rejected THEN "" ELSE out.table_id,
                        !.at = IF rejected THEN "rejected"
                               ELSE IF out.raised # "" THEN "failed"
                               ELSE "loop"]

\* bulk_operations(base_id, table_name, operations) up to its loop
BulkOperationsStart ==
    /\ \E base_id \in BaseIds, table_name \in TableNames,
          operations \in BatchesOf(OperationKinds), http_ok \in BOOLEAN :
           BatchStarted("bulk_operations", base_id, table_name, operations, http_ok)
    /\ UNCHANGED remote_tables
    /\ UNCHANGED <<diagramVars, serverVars>>

\* upsert_records(base_id, table_name, data, unique_keys) up to its loop
UpsertRecordsStart ==
    /\ \E base_id \in BaseIds, table_name \in TableNames,
          data \in BatchesOf(RecordKinds), http_ok \in BOOLEAN :
           BatchStarted("upsert_records", base_id, table_name, data, http_ok)
    /\ UNCHANGED remote_tables
    /\ UNCHANGED <<diagramVars, serverVars>>

\* one iteration of `for operation in operations:`
BulkOperationsItem ==
    /\ batch.tool = "bulk_operations"
    /\ batch.at = "loop"
    /\ batch.i <= Len(batch.items)
    /\ \E accepted \in BOOLEAN :
          batch' = Tallied(batch, BulkOutcome(batch.items[batch.i], accepted))
    /\ UNCHANGED <<schema_cache, remote_tables, noco, noco_calls>>
    /\ UNCHANGED <<diagramVars, serverVars>>

\* one iteration of `for record in data:`
UpsertRecordsItem ==
    /\ batch.tool = "upsert_records"
    /\ batch.at = "loop"
    /\ batch.i <= Len(batch.items)
    /\ \E lookup_ok \in BOOLEAN, exists \in BOOLEAN, accepted \in BOOLEAN :
          batch' = Tallied(batch, UpsertOutcome(batch.items[batch.i], lookup_ok,
                                                exists, accepted))
    /\ UNCHANGED <<schema_cache, remote_tables, noco, noco_calls>>
    /\ UNCHANGED <<diagramVars, serverVars>>

\* the loop is over: the tool returns its counters and its error list
BatchReturn ==
    /\ batch.at = "loop"
    /\ batch.i > Len(batch.items)
    /\ batch' = [batch EXCEPT !.at = "returned"]
    /\ UNCHANGED <<schema_cache, remote_tables, noco, noco_calls>>
    /\ UNCHANGED <<diagramVars, serverVars>>

\* the record tools and the schema tools, in any order
NocoNext ==
    \/ GetTableId
    \/ CreateTable
    \/ DropTable
    \/ RenameTable
    \/ AlterTable
    \/ ColumnOrCommentTool

NocoSpec == NocoInit /\ [][NocoNext]_vars

\* the batch tools
BatchNext ==
    \/ BulkOperationsStart
    \/ UpsertRecordsStart
    \/ BulkOperationsItem
    \/ UpsertRecordsItem
    \/ BatchReturn

BatchSpec == NocoInit /\ [][BatchNext]_vars

\* the call runs to its end: no step of it waits on anything
FairSpec == Spec /\ WF_vars(Next)

----------------------------------------------------------------------------
(* Vocabulary of the properties *)

Items == companies_data.items
KeySet == {Items[i].id : i \in 1..Len(Items)}
Refs(i) == Items[i].parents
IsEdge(i, j) == Refs(i)[j].k \in {"str", "dict"}

\* the mapping and each of its entries have the documented shape
WellFormed ==
    /\ ~companies_data.isnone
    /\ \A i \in 1..Len(Items) : Items[i].isdict /\ Items[i].pk \in {"list", "absent"}

\* every percentage is missing or a number
PercentagesAreNumbers ==
    \A i \in 1..Len(Items) : \A j \in 1..Len(Refs(i)) : Refs(i)[j].pct.t \in {"none", "num"}

\* _calculate_hierarchy_levels has returned normally
LevelsReturned ==
    pc \notin {"styles", "start", "levels"} /\ failure.at \notin {"start", "levels"}

\* level_companies holds the grouping of the final level map
Grouped == LevelsReturned /\ pc \notin {"header", "group"}

LevelOfId(id) == PosGet(company_positions, id)
IsPlaced(id) == PosHas(company_positions, id)

\* y of the centre of a placed entity's box, as the running generator computes it
BoxY(id) ==
    IF gen = "svg" THEN SvgPosition(id, company_positions, level_companies).y
    ELSE GetCompanyPosition(id, level_companies).y

\* the parent's box is on the upper side of the child's in the generator's coordinates
ParentAbove(parent_id, child_id) ==
    IF gen = "svg" THEN BoxY(parent_id) < BoxY(child_id)
    ELSE BoxY(child_id) < BoxY(parent_id)

TwoCycle == DictData(<<Entity("A", <<StrRef("B")>>), Entity("B", <<StrRef("A")>>)>>)

----------------------------------------------------------------------------
(* C1 *)

\* C1: level assignment terminates for every entity map, cycles and self-parents
\* included: every call reaches its end without exhausting the recursion depth,
\* and for the cycle A <-> B both A and B then have a level.
C1_LevelAssignmentTerminates ==
    <>( /\ pc = "done"
        /\ failure.name # "RecursionError"
        /\ (companies_data = TwoCycle =>
               IsPlaced("A") /\ IsPlaced("B") /\ result.kind = "diagram") )

C1_Witness ==
    /\ pc = "done"
    /\ companies_data = TwoCycle
    /\ IsPlaced("A") /\ IsPlaced("B")
    /\ result.kind = "diagram"

----------------------------------------------------------------------------
(* C2 *)

\* C2 as stated: for every declared parent reference whose parent and child are
\* both placed, the parent box is strictly above the child box.
C2_EveryEdgeParentAbove ==
    Grouped =>
        \A i \in 1..Len(Items) : \A j \in 1..Len(Refs(i)) :
            (IsEdge(i, j) /\ IsPlaced(Refs(i)[j].id) /\ IsPlaced(Items[i].id))
                => ParentAbove(Refs(i)[j].id, Items[i].id)

\* C2 amended: for every declared parent reference whose child was recorded while
\* its parent was being expanded, the parent box is strictly above the child box
\* (svg: y(parent) < y(child); plot: y(child) < y(parent)).
C2_TraversalEdgeParentAbove ==
    Grouped =>
        \A i \in 1..Len(Items) : \A j \in 1..Len(Refs(i)) :
            ( /\ IsEdge(i, j)
              /\ IsPlaced(Refs(i)[j].id) /\ IsPlaced(Items[i].id)
              /\ reached_via[Items[i].id] = Refs(i)[j].id )
                => ParentAbove(Refs(i)[j].id, Items[i].id)

\* a finished plot call with a child of two placed parents, reached through one
C2_Witness ==
    /\ pc = "done"
    /\ gen = "plotly"
    /\ result.kind = "diagram"
    /\ \E i \in 1..Len(Items) : \E j, k \in 1..Len(Refs(i)) :
          /\ Refs(i)[j].id # Refs(i)[k].id
          /\ IsPlaced(Refs(i)[j].id) /\ IsPlaced(Refs(i)[k].id) /\ IsPlaced(Items[i].id)
          /\ reached_via[Items[i].id] = Refs(i)[j].id
          /\ LevelOfId(Refs(i)[j].id) > 0

----------------------------------------------------------------------------
(* C3 *)

----------------------------------------------------------------------------
(* C4, C5 *)

\* the percentages of the references of entry i
PctOf(i, j) == Refs(i)[j].pct

SixtyValues ==
    { NumPct(600), StrPct(<<"6", "0">>), StrPct(<<"6", "0", "%">>),
      StrPct(<<"6", "0", ".", "0">>) }
AbsentValues == { NumPct(-50), StrPct(<<"a", "b", "c">>) }
MalformedValues == { NumPct(-50), StrPct(<<"a", "b", "c">>), StrPct(<<>>) }

\* the ids that have a box
BoxIds == {boxes[k].id : k \in 1..Len(boxes)}

\* C4 as stated: in every generator a reference with percentage 60, "60", "60%" or
\* "60.0" is drawn with the value 60.0 and the majority style, and a reference
\* with -5 or "abc" is drawn with no value and the default style.
C4_PercentageResolvesInEveryGenerator ==
    ( /\ pc = "done"
      /\ companies_data \in PctInputs
      /\ \A j \in 1..Len(Refs(2)) : PctOf(2, j) \in SixtyValues \cup AbsentValues )
    => /\ Len(connections) = Len(Refs(2))
       /\ \A j \in 1..Len(Refs(2)) :
             /\ PctOf(2, j) \in SixtyValues =>
                   /\ connections[j].label = Some(600)
                   /\ connections[j].style = "majority_ownership"
             /\ PctOf(2, j) \in AbsentValues =>
                   /\ connections[j].label = Absent
                   /\ connections[j].style = "default"

\* C5 as stated: a reference whose percentage is "abc", "" or negative (the other
\* references carrying a number or none) only loses its label: the call returns
\* the normal diagram with every box and that connector in the default style.
C5_MalformedPercentageOnlyLosesLabel ==
    ( /\ pc = "done"
      /\ companies_data \in PctInputs
      /\ \A j \in 1..Len(Refs(2)) :
            PctOf(2, j) \in MalformedValues \/ PctOf(2, j).t \in {"none", "num"} )
    => \A j \in 1..Len(Refs(2)) :
          PctOf(2, j) \in MalformedValues =>
             /\ result.kind = "diagram"
             /\ BoxIds = KeySet
             /\ Len(connections) = Len(Refs(2))
             /\ connections[j].style = "default"
             /\ connections[j].label = Absent

----------------------------------------------------------------------------
(* C6 *)

\* entry i has a parents list and the list is empty
EmptyParentsList(i) == Items[i].isdict /\ Items[i].pk = "list" /\ Refs(i) = <<>>

\* C6: once level assignment has returned, every entity whose parents list is
\* empty has level 0 in the level map, whatever else the input holds.
C6_EmptyParentsAtLevelZero ==
    LevelsReturned =>
        \A i \in 1..Len(Items) :
            EmptyParentsList(i) => IsPlaced(Items[i].id) /\ LevelOfId(Items[i].id) = 0

\* a finished call with two entities without parents and a third one below them
C6_Witness ==
    /\ pc = "done"
    /\ result.kind = "diagram"
    /\ \E i, k \in 1..Len(Items) :
          /\ i # k /\ EmptyParentsList(i) /\ EmptyParentsList(k)
          /\ LevelOfId(Items[i].id) = 0 /\ LevelOfId(Items[k].id) = 0
    /\ \E i \in 1..Len(Items) : IsPlaced(Items[i].id) /\ LevelOfId(Items[i].id) = 1

----------------------------------------------------------------------------
(* C7 *)

\* _find_root_companies has returned normally
RootsReturned == pc \notin {"styles", "start"} /\ failure.at # "start"

\* entry i declares no parent: its list is empty or it has no parents key
DeclaresNoParent(i) ==
    Items[i].pk = "absent" \/ (Items[i].pk = "list" /\ Refs(i) = <<>>)

\* s lists the ids of the entries I, each once, in input order
ListsInInputOrder(s, I) ==
    \E f \in [1..Len(s) -> 1..Len(Items)] :
        /\ \A a, b \in 1..Len(s) : a < b => f[a] < f[b]
        /\ {f[a] : a \in 1..Len(s)} = I
        /\ \A a \in 1..Len(s) : s[a] = Items[f[a]].id

\* C7: on a well-formed map root discovery returns the ids whose parents are empty
\* or absent, in input order; when there is none, the first id of a non-empty map
\* alone; and the empty sequence for the empty map.
C7_RootDiscovery ==
    (RootsReturned /\ WellFormed) =>
        LET declared == {i \in 1..Len(Items) : DeclaresNoParent(i)}
        IN  IF declared # {} THEN ListsInInputOrder(root_companies, declared)
            ELSE IF Items # <<>> THEN root_companies = <<Items[1].id>>
            ELSE root_companies = <<>>

\* every entity of a non-empty map has a parent, and the first one became the root
C7_Witness ==
    /\ pc = "done"
    /\ WellFormed
    /\ Len(Items) >= 2
    /\ \A i \in 1..Len(Items) : ~DeclaresNoParent(i)
    /\ root_companies = <<Items[1].id>>

----------------------------------------------------------------------------
(* C8 *)

\* entry i names a parent id that is no key of the map
NamesAbsentParent(i) ==
    \E j \in 1..Len(Refs(i)) : IsEdge(i, j) /\ Refs(i)[j].id \notin KeySet

\* C8: no connector ever references an id absent from the entity set, and a
\* well-formed map holding a reference to an absent id (its percentages numbers
\* or none) still ends in the normal diagram, not the error placeholder.
C8_AbsentParentHasNoConnector ==
    /\ \A k \in 1..Len(connections) :
          connections[k].parent \in KeySet /\ connections[k].child \in KeySet
    /\ ( /\ pc = "done"
         /\ WellFormed /\ PercentagesAreNumbers
         /\ \E i \in 1..Len(Items) : NamesAbsentParent(i) )
       => result.kind = "diagram" /\ failure = NoFailure

\* a finished call where a placed entity names an absent parent besides a present
\* one, and only the present one got a connector
C8_Witness ==
    /\ pc = "done"
    /\ result.kind = "diagram"
    /\ \E i \in 1..Len(Items) :
          /\ NamesAbsentParent(i)
          /\ IsPlaced(Items[i].id)
          /\ \E k \in 1..Len(connections) : connections[k].child = Items[i].id
          /\ \A k \in 1..Len(connections) : connections[k].parent # AbsentId

----------------------------------------------------------------------------
(* C9 *)

\* the roots as the input declares them: the entries without parents, or the
\* first entry when every entry has parents
DeclaredRoots ==
    LET declared == {Items[i].id : i \in {k \in 1..Len(Items) : DeclaresNoParent(k)}}
    IN  IF declared = {} /\ Items # <<>> THEN {Items[1].id} ELSE declared

\* the ids reached from S in at most n parent-to-child steps
RECURSIVE ReachedWithin(_, _)
ReachedWithin(S, n) ==
    IF n = 0 THEN S
    ELSE ReachedWithin(
             S \cup {Items[i].id : i \in {k \in 1..Len(Items) :
                        \E j \in 1..Len(Refs(k)) : IsEdge(k, j) /\ Refs(k)[j].id \in S}},
             n - 1)
Reachable == ReachedWithin(DeclaredRoots, Len(Items))

\* entry i has parents and cannot be reached from a root
Unreachable(i) == Refs(i) # <<>> /\ Items[i].id \notin Reachable

\* C9: on a well-formed map, an entity with a non-empty parents list that no root
\* reaches along parent-to-child edges has no level, no box and no connector, and
\* the call ends in the normal diagram.
C9_UnreachableEntityLeftOut ==
    (pc = "done" /\ WellFormed /\ PercentagesAreNumbers) =>
        \A i \in 1..Len(Items) :
            Unreachable(i) =>
                /\ ~IsPlaced(Items[i].id)
                /\ Items[i].id \notin BoxIds
                /\ \A k \in 1..Len(connections) :
                      connections[k].child # Items[i].id /\ connections[k].parent # Items[i].id
                /\ result.kind = "diagram" /\ failure = NoFailure

\* a finished call with a root, a placed child of it, and an entity whose only
\* parent is absent from the map
C9_Witness ==
    /\ pc = "done"
    /\ result.kind = "diagram"
    /\ connections # <<>>
    /\ \E r \in 1..Len(Items) : EmptyParentsList(r) /\ IsPlaced(Items[r].id)
    /\ \E i \in 1..Len(Items) :
          /\ Unreachable(i)
          /\ \A j \in 1..Len(Refs(i)) : Refs(i)[j].id = AbsentId
          /\ ~IsPlaced(Items[i].id)

----------------------------------------------------------------------------
(* C10 *)

\* C10: for the empty map the call ends with an empty level map, no boxes, no
\* connectors, max level 0 and the normal document of height
\* SVG_HEIGHT_BASE + SVG_HEIGHT_PER_LEVEL.
C10_EmptyMapGivesEmptyDiagram ==
    (pc = "done" /\ companies_data = DictData(<<>>)) =>
        /\ company_positions = <<>>
        /\ level_companies = EmptyMap
        /\ boxes = <<>>
        /\ connections = <<>>
        /\ max_level = 0
        /\ failure = NoFailure
        /\ result.kind = "diagram"
        /\ result.width = SVG_WIDTH
        /\ result.height = SVG_HEIGHT_BASE + SVG_HEIGHT_PER_LEVEL

\* the SVG generator has returned the document for the empty map
C10_Witness ==
    /\ pc = "done"
    /\ gen = "svg"
    /\ companies_data = DictData(<<>>)
    /\ result.kind = "diagram"
    /\ result.height = SVG_HEIGHT_BASE + SVG_HEIGHT_PER_LEVEL

----------------------------------------------------------------------------
(* C11 *)

\* the call has returned the normal diagram
ReturnedDiagram == pc = "done" /\ result.kind = "diagram"

\* the box drawn for id
BoxOf(id) == CHOOSE b \in Range(boxes) : b.id = id

\* bottom-centre and top-centre of a box; y grows downward in the SVG generator
\* and upward in the plot
BottomCentre(b) ==
    [x |-> (b.x0 + b.x1) \div 2, y |-> IF gen = "svg" THEN b.y1 ELSE b.y0]
TopCentre(b) ==
    [x |-> (b.x0 + b.x1) \div 2, y |-> IF gen = "svg" THEN b.y0 ELSE b.y1]

\* the number of references of entry i that name parent_id
ReferencesTo(i, parent_id) ==
    Cardinality({j \in 1..Len(Refs(i)) : IsEdge(i, j) /\ Refs(i)[j].id = parent_id})

\* the number of connectors drawn from parent_id to child_id
ConnectorsBetween(parent_id, child_id) ==
    Cardinality({k \in 1..Len(connections) :
                    connections[k].parent = parent_id /\ connections[k].child = child_id})

\* C11: in a returned diagram the connectors from p to c are as many as the
\* references of c that name p when both are placed, and none otherwise; every
\* connector runs from its parent's bottom-centre to its child's top-centre.
C11_OneConnectorPerPlacedReference ==
    ReturnedDiagram =>
        /\ \A i \in 1..Len(Items) : \A parent_id \in KeySet \cup {AbsentId} :
              ConnectorsBetween(parent_id, Items[i].id) =
                  IF IsPlaced(parent_id) /\ IsPlaced(Items[i].id)
                  THEN ReferencesTo(i, parent_id) ELSE 0
        /\ \A k \in 1..Len(connections) :
              /\ connections[k].child \in KeySet
              /\ connections[k].parent \in BoxIds /\ connections[k].child \in BoxIds
              /\ connections[k].x1 = BottomCentre(BoxOf(connections[k].parent)).x
              /\ connections[k].y1 = BottomCentre(BoxOf(connections[k].parent)).y
              /\ connections[k].x2 = TopCentre(BoxOf(connections[k].child)).x
              /\ connections[k].y2 = TopCentre(BoxOf(connections[k].child)).y

\* the SVG diagram of a child with two placed parents: two connectors end at it
C11_Witness ==
    /\ ReturnedDiagram
    /\ gen = "svg"
    /\ \E i \in 1..Len(Items) : \E p1, p2 \in KeySet \ {Items[i].id} :
          /\ p1 # p2
          /\ ConnectorsBetween(p1, Items[i].id) = 1
          /\ ConnectorsBetween(p2, Items[i].id) = 1
          /\ Cardinality({k \in 1..Len(connections) :
                             connections[k].child = Items[i].id}) = 2

----------------------------------------------------------------------------
(* C14 *)

\* x of the centre of a placed entity's box, as the running generator computes it
BoxX(id) ==
    IF gen = "svg" THEN SvgPosition(id, company_positions, level_companies).x
    ELSE GetCompanyPosition(id, level_companies).x

\* the stored list of the level of a placed id, and the id's 0-based index in it
RowOf(id) == level_companies[LevelOfId(id)]
IndexInRow(id) == CHOOSE i \in 0..(Len(RowOf(id)) - 1) : RowOf(id)[i + 1] = id

\* n*W + (n-1)*M
RowWidth(n) == n * BOX_WIDTH + (n - 1) * BOX_MARGIN

\* C14: twice the x-centre of the i-th of n entities of a level is exactly
\* (C - level_width) + 2*i*(W+M) + W, that is x_center = start_x + i*(W+M) + W/2
\* with start_x = (C - level_width)/2 and no rounding; nothing is clamped, so the
\* first box of a row wider than the canvas starts left of x = 0.
C14_XCentreFormula ==
    Grouped =>
        \A k \in 1..Len(company_positions) :
            LET id == company_positions[k].id
                n == Len(RowOf(id))
            IN  /\ 2 * BoxX(id) = (SVG_WIDTH - RowWidth(n))
                                    + 2 * IndexInRow(id) * (BOX_WIDTH + BOX_MARGIN)
                                    + BOX_WIDTH
                /\ (RowWidth(n) > SVG_WIDTH /\ IndexInRow(id) = 0) =>
                       2 * BoxX(id) - BOX_WIDTH < 0
                /\ (ReturnedDiagram /\ id \in BoxIds) =>
                       BoxOf(id).x0 + BoxOf(id).x1 = 2 * BoxX(id)

\* a returned diagram whose level 0 is wider than the canvas: its first box
\* starts at a negative x
C14_Witness ==
    /\ ReturnedDiagram
    /\ Len(company_positions) > 0
    /\ RowWidth(Len(RowOf(company_positions[1].id))) > SVG_WIDTH
    /\ BoxOf(company_positions[1].id).x0 < 0

----------------------------------------------------------------------------
(* C15 *)

Distance(a, b) == IF a >= b THEN a - b ELSE b - a

\* C15: two distinct entities of one level have the same y and x-centres at
\* least W+M apart, and in a returned diagram their rectangles have the same
\* vertical extent and disjoint horizontal extents.
C15_SameLevelSideBySide ==
    Grouped =>
        \A a, b \in PosIds(company_positions) :
            (a # b /\ LevelOfId(a) = LevelOfId(b)) =>
                /\ BoxY(a) = BoxY(b)
                /\ Distance(BoxX(a), BoxX(b)) >= BOX_WIDTH + BOX_MARGIN
                /\ ReturnedDiagram =>
                      /\ a \in BoxIds /\ b \in BoxIds
                      /\ BoxOf(a).y0 = BoxOf(b).y0 /\ BoxOf(a).y1 = BoxOf(b).y1
                      /\ BoxOf(a).x1 <= BoxOf(b).x0 \/ BoxOf(b).x1 <= BoxOf(a).x0

\* the SVG diagram of two unrelated roots: both at level 0, no connector
C15_Witness ==
    /\ ReturnedDiagram
    /\ gen = "svg"
    /\ Len(Items) = 2
    /\ \A i \in 1..Len(Items) : EmptyParentsList(i) /\ LevelOfId(Items[i].id) = 0
    /\ connections = <<>>
    /\ BoxOf("A").y0 = BoxOf("B").y0
    /\ BoxOf("A").x1 + BOX_MARGIN = BoxOf("B").x0

----------------------------------------------------------------------------
(* C16, C19, C20 *)

\* the positions in the write history at which id was recorded
WritesOf(id) == {k \in 1..Len(recorded) : recorded[k].id = id}

\* C16 as stated: whenever the traversal recorded c while expanding p, the final
\* level map has level(c) = level(p) + 1.
C16_RecordedChildOneBelowParent ==
    LevelsReturned =>
        \A k \in 1..Len(recorded) :
            recorded[k].via # "" =>
                LevelOfId(recorded[k].id) = LevelOfId(recorded[k].via) + 1

\* C19 as stated: during one layout call every id is written to the level map at
\* most once, and exactly once when a root reaches it, whatever the number of roots.
C19_EachIdRecordedOnce ==
    /\ \A id \in KeySet : Cardinality(WritesOf(id)) <= 1
    /\ (LevelsReturned /\ WellFormed) =>
          \A id \in Reachable : Cardinality(WritesOf(id)) = 1

\* C20 as stated: an entity that the traversals of two different roots recorded at
\* different depths has, in the final level map, the depth at which the first of
\* these traversals recorded it.
C20_FirstRootKeepsLevel ==
    LevelsReturned =>
        \A id \in KeySet :
            (\E j, k \in WritesOf(id) :
                recorded[j].root # recorded[k].root /\ recorded[j].level # recorded[k].level)
            => LevelOfId(id) = recorded[SetMin(WritesOf(id))].level

----------------------------------------------------------------------------
(* Registration of endpoint servers *)

\* the step is a register_endpoint call
RegistrationStep == call'.n = call.n + 1

\* the class of the object defines no register_tools method
LacksRegisterTools(server) == "register_tools" \notin Methods(server)

\* C17: register_endpoint called with an object that has no register_tools
\* method raises ValueError and leaves the server as it was: the endpoints map
\* holds the entries it held before the call and nothing more is mounted.
C17_InvalidEndpointRejected ==
    [][(RegistrationStep /\ LacksRegisterTools(call'.server))
        => /\ raised' = "ValueError"
           /\ endpoints' = endpoints
           /\ mounted' = mounted]_vars

\* a plain object was rejected by a server that already holds an endpoint
C17_Witness ==
    /\ main_pc = "test"
    /\ call.server = "object"
    /\ call.name = "invalid"
    /\ raised = "ValueError"
    /\ DOMAIN endpoints = {"nocodb"}
    /\ mounted = <<MountPath("nocodb")>>

\* main() is past its registrations
MainRegistered == main_pc \in {"check", "run", "exited", "serving"}

\* C18: registering one of the repository's endpoint servers stores it: after
\* register_endpoint(name, server) with a HealthMCPServer or with the
\* ExampleMCPServer of main(), endpoints[name] is that server, and main() has at
\* least one registered endpoint once its registrations are over, whether or not
\* NocoDB is configured.
C18_RepositoryEndpointsRegister ==
    /\ call.server \in {"HealthMCPServer", "ExampleMCPServer"}
        => /\ call.name \in DOMAIN endpoints
           /\ endpoints[call.name] = call.server
    /\ MainRegistered => DOMAIN endpoints # {}

----------------------------------------------------------------------------
(* The companion parameters: styling, geometry and the shared presets *)

\* a colour configuration the generator accepts: the Plotly generator calls
\* custom_colors.get and needs a dict
WellFormedColors(g, cc) == g = "svg" \/ cc.given

\* the call has returned
Returned == pc = "done"

\* C12: for a fixed entity map, the level map, the box positions and the
\* connector endpoints are the same for every choice of focus_company and of
\* well-formed colour configuration or preset: a call returns the geometry that
\* every earlier call on the same entity map returned, whatever the companion
\* parameters of the two calls were.
C12_StylingLeavesGeometryAlone ==
    \A k \in 1..Len(earlier) :
        (/\ Returned
         /\ WellFormedColors(gen, custom_colors)
         /\ WellFormedColors(gen, earlier[k].custom_colors))
        => /\ company_positions = earlier[k].company_positions
           /\ max_level = earlier[k].max_level
           /\ boxes = earlier[k].boxes
           /\ connections = earlier[k].connections
           /\ result = earlier[k].result

\* two SVG calls on the diamond that differ in preset, colours and focus, and
\* whose rectangles were styled differently
C12_Witness ==
    /\ Returned
    /\ gen = "svg"
    /\ companies_data = Diamond
    /\ Len(earlier) = 1
    /\ earlier[1].focus_company = "" /\ focus_company = "D"
    /\ earlier[1].color_category = "professional" /\ color_category = "custom"
    /\ earlier[1].custom_colors = None /\ Truthy(custom_colors)
    /\ Len(boxes) = 4 /\ Len(connections) = 3
    /\ earlier[1].box_styles # box_styles
    /\ earlier[1].boxes = boxes

\* entity_styles of a call with the current arguments in a process that has
\* made no call before
FirstCallStyles ==
    SelectEntityStylesOf(ShippedColorCategories, color_category, custom_colors)

\* C13: diagram calls share no mutable state: a call leaves COLOR_CATEGORIES as
\* constants.py defines it, so after any earlier calls a call styles its output
\* as it would as the first call of the process.
C13_CallsShareNoState ==
    /\ COLOR_CATEGORIES = ShippedColorCategories
    /\ (Returned /\ gen = "svg" /\ result.kind = "diagram")
        => /\ entity_styles = FirstCallStyles
           /\ box_styles = BoxStyles("svg", boxes, FirstCallStyles, custom_colors,
                                     focus_company)

----------------------------------------------------------------------------
(* The returned max level and the level groups *)

\* the level assignment returned without raising
LevelsAssigned == LevelsReturned /\ failure = NoFailure

\* the greatest level of the level map, 0 for an empty map
GreatestLevel(cp) == IF cp = <<>> THEN 0 ELSE SetMax({cp[i].level : i \in 1..Len(cp)})

\* C21 as stated: the max level that the level assignment returns, used for the
\* canvas height, is the greatest level of the final level map, and 0 when the
\* map is empty.
C21_MaxLevelIsGreatestAssigned ==
    LevelsAssigned => max_level = GreatestLevel(company_positions)

\* the groups have been built
GroupsBuilt == Grouped /\ failure = NoFailure

\* the position of id's first write to the level map
FirstWrite(id) == SetMin(WritesOf(id))

\* the position of the first write that recorded id at this level
FirstWriteAt(id, level) ==
    SetMin({k \in WritesOf(id) : recorded[k].level = level})

\* every placed id is in the group of its final level, once, and in no other
EachIdInItsGroupOnce ==
    \A i \in 1..Len(company_positions) :
        LET id == company_positions[i].id
        IN  /\ company_positions[i].level \in DOMAIN level_companies
            /\ \A level \in DOMAIN level_companies :
                 Cardinality({k \in 1..Len(level_companies[level]) :
                                level_companies[level][k] = id})
                 = IF level = company_positions[i].level THEN 1 ELSE 0

\* the groups hold placed ids only, and no group is empty
GroupsHoldPlacedIds ==
    \A level \in DOMAIN level_companies :
        /\ level_companies[level] # <<>>
        /\ \A k \in 1..Len(level_companies[level]) : IsPlaced(level_companies[level][k])

----------------------------------------------------------------------------
(* The connector style buckets *)

Solid(c) == c.stroke_dasharray = "none"
Dashed(c) == c.stroke_dasharray = "5,5"

\* every drawn connector has the dash pattern of its bucket: majority and
\* default solid, minority dashed
DashPatternsFixed ==
    \A k \in 1..Len(connections) :
        LET c == connections[k]
        IN  /\ c.style \in {"majority_ownership", "minority_ownership", "default"}
            /\ c.style \in {"majority_ownership", "default"} => Solid(c)
            /\ c.style = "minority_ownership" => Dashed(c)

\* C23 as stated: the three buckets have strictly ordered stroke widths and fixed
\* dash patterns: a majority connector is solid and wider than a minority one, a
\* minority connector is dashed and wider than a default one.
C23_BucketWidthsStrictlyOrdered ==
    /\ DashPatternsFixed
    /\ \A j, k \in 1..Len(connections) :
         LET c == connections[j]
             d == connections[k]
         IN  /\ (c.style = "majority_ownership" /\ d.style = "minority_ownership")
                    => c.stroke_width > d.stroke_width
             /\ (c.style = "minority_ownership" /\ d.style = "default")
                    => c.stroke_width > d.stroke_width

\* C23, amended: the dash patterns are fixed (majority solid, minority dashed,
\* default solid); a majority connector is strictly wider than a minority and
\* than a default one, and a minority connector is exactly as wide as a default
\* one, from which only its dashes tell it apart.
C23_MajorityWidestOthersEqual ==
    /\ DashPatternsFixed
    /\ \A j, k \in 1..Len(connections) :
         LET c == connections[j]
             d == connections[k]
         IN  /\ (c.style = "majority_ownership" /\ d.style # "majority_ownership")
                    => c.stroke_width > d.stroke_width
             /\ (c.style = "minority_ownership" /\ d.style = "default")
                    => c.stroke_width = d.stroke_width /\ Dashed(c) /\ Solid(d)

\* one diagram holds a minority connector beside a default one
C23_Witness ==
    /\ ReturnedDiagram
    /\ \E j, k \in 1..Len(connections) :
         /\ connections[j].style = "minority_ownership"
         /\ connections[k].style = "default"

----------------------------------------------------------------------------
(* The level map against the entity map *)

\* the ids the discovered roots reach along parent-to-child edges
ReachableFromRoots == ReachedWithin(Range(root_companies), Len(Items))

\* the ids of the level groups
GroupedIds == UNION {Range(level_companies[level]) : level \in DOMAIN level_companies}

\* C27: every id in the level map is a key of the entity map, and the ids in the
\* level map are exactly the entities that the discovered roots reach along
\* parent-to-child edges; hence the box stage never looks up an id that is
\* missing from the entity map: it raises no KeyError and every box is a key's.
C27_LevelMapIsReachableSet ==
    /\ LevelsAssigned =>
          /\ PosIds(company_positions) \subseteq KeySet
          /\ PosIds(company_positions) = ReachableFromRoots
    /\ GroupedIds \subseteq KeySet
    /\ BoxIds \subseteq KeySet
    /\ failure.name = "KeyError" => failure.at \notin {"svg_boxes", "plotly_boxes"}

\* a finished diagram whose level map holds a root and an entity reached from
\* it, and leaves out a key that no root reaches
C27_Witness ==
    /\ ReturnedDiagram
    /\ Len(boxes) >= 2
    /\ \E k \in 1..Len(recorded) : recorded[k].level >= 1
    /\ KeySet \ PosIds(company_positions) # {}
    /\ BoxIds = ReachableFromRoots

----------------------------------------------------------------------------
(* Parents one level up, and the levels in use *)

\* the levels that hold at least one entity
OccupiedLevels == {company_positions[i].level : i \in 1..Len(company_positions)}

\* entry i declares a parent that is placed at this level
HasDeclaredParentAt(i, level) ==
    \E j \in 1..Len(Refs(i)) :
        /\ IsEdge(i, j)
        /\ IsPlaced(Refs(i)[j].id)
        /\ LevelOfId(Refs(i)[j].id) = level

\* C28: in the final level map every entity at a level k > 0 has at least one
\* declared parent placed at level exactly k - 1; hence the occupied levels are
\* 0 up to the greatest assigned level without a gap, and no level group in
\* between is missing or empty.
C28_ParentOneLevelUpNoGaps ==
    /\ LevelsAssigned =>
          /\ \A i \in 1..Len(Items) :
                (IsPlaced(Items[i].id) /\ LevelOfId(Items[i].id) > 0)
                => HasDeclaredParentAt(i, LevelOfId(Items[i].id) - 1)
          /\ company_positions # <<>>
                => OccupiedLevels = 0..GreatestLevel(company_positions)
    /\ (GroupsBuilt /\ company_positions # <<>>) =>
          /\ DOMAIN level_companies = 0..GreatestLevel(company_positions)
          /\ \A level \in DOMAIN level_companies : level_companies[level] # <<>>

\* a final map in which a later root moved an entity up, and the entity has one
\* placed parent on its own level or below beside the one right above it
C28_Witness ==
    /\ GroupsBuilt
    /\ \E i \in 1..Len(Items) :
         /\ IsPlaced(Items[i].id)
         /\ LevelOfId(Items[i].id) > 0
         /\ \E k \in WritesOf(Items[i].id) : recorded[k].level # LevelOfId(Items[i].id)
         /\ \E j \in 1..Len(Refs(i)) :
               /\ IsEdge(i, j) /\ IsPlaced(Refs(i)[j].id)
               /\ LevelOfId(Refs(i)[j].id) >= LevelOfId(Items[i].id)

----------------------------------------------------------------------------
(* The boxes inside the canvas *)

\* C29: every drawn box lies vertically inside the canvas: the canvas height
\* SVG_HEIGHT_BASE + (max_level + 1) * SVG_HEIGHT_PER_LEVEL computed from the
\* returned max level is at least the far edge of every box and no box starts
\* above 0, because every assigned level is at most the returned max level.
C29_BoxesInsideCanvasHeight ==
    /\ LevelsAssigned =>
          \A i \in 1..Len(company_positions) : company_positions[i].level <= max_level
    /\ ReturnedDiagram =>
          /\ result.height = SVG_HEIGHT_BASE + (max_level + 1) * SVG_HEIGHT_PER_LEVEL
          /\ \A k \in 1..Len(boxes) :
                /\ 0 <= boxes[k].y0
                /\ boxes[k].y0 < boxes[k].y1
                /\ boxes[k].y1 <= result.height

\* a diagram of three rows whose lowest box ends one base height above the
\* canvas's lower edge
C29_Witness ==
    /\ ReturnedDiagram
    /\ GreatestLevel(company_positions) = 2
    /\ max_level = 2
    /\ \E k \in 1..Len(boxes) :
         boxes[k].y1 = Y_OFFSET + 2 * SVG_HEIGHT_PER_LEVEL + BOX_HEIGHT
    /\ \E k \in 1..Len(boxes) : boxes[k].y0 = Y_OFFSET

----------------------------------------------------------------------------
(* The two generators side by side *)

\* the CompanyStructureGenerator call has ended after the SVG call on the same map
BothReturned == pc = "done" /\ gen \in {"plotly", "endpoint"} /\ Len(earlier) = 1

\* the rectangle the earlier call drew for id
EarlierBoxOf(id) == CHOOSE b \in Range(earlier[1].boxes) : b.id = id

----------------------------------------------------------------------------
(* main() and the serving step *)

\* main() has ended in sys.exit(1)
ErrorExit == main_pc = "exited" /\ exit_status = 1

\* C25: main() creates and runs the server: on every execution in which at least
\* one endpoint has been registered, main() reaches the serving step
\* (BaseMCPServer.run starts the HTTP server) and never ends in the error exit
\* with status 1.
C25_MainServesOnceAnEndpointIsRegistered ==
    DOMAIN endpoints # {} => ~ErrorExit

----------------------------------------------------------------------------
(* The table-id cache *)

\* the keys the cache holds for the tables of a base
EntriesOfBase(cache, base_id) ==
    {CacheKey(base_id, table_name) : table_name \in TableNames} \cap DOMAIN cache

\* the latest call was a schema tool that succeeded
SchemaToolSucceeded == noco.tool \in SchemaTools /\ noco.ok

\* C24: the table-name to table-id cache is invalidated on schema-mutating
\* calls: after any successful create_table, drop_table, add_column,
\* drop_column, alter_table, rename_table, rename_column, alter_column,
\* add_table_comment or add_column_comment for base b the cache holds no entry
\* for base b, and the next get_table_id for a table of b asks the remote API
\* again, so that it cannot return an id cached before the mutation.
C24_SchemaToolsInvalidateTheCache ==
    /\ SchemaToolSucceeded => EntriesOfBase(schema_cache, noco.base_id) = {}
    /\ (noco.tool = "get_table_id" /\ noco.follows = noco.base_id) => noco.asked

----------------------------------------------------------------------------
(* The batch tools *)

\* the items the running batch tool has tallied so far
TalliedItems == batch.created + batch.updated + batch.deleted + Len(batch.errors)

\* the batch tool has passed its lookup step
PastLookup == batch.at \in {"loop", "returned"}

\* C26: the batch tools process each item exactly once and tally it in exactly
\* one outcome: once bulk_operations or upsert_records is past its lookup step,
\* the items handled so far are counted once each in created, updated, deleted
\* or the error list, an item that fails being followed by the next item; at
\* the return the tallies add up to the number of items; upsert_records deletes
\* nothing; and no item has two error entries.
C26_EachItemTalliedOnce ==
    /\ PastLookup => TalliedItems = batch.i - 1
    /\ batch.at = "returned" => TalliedItems = Len(batch.items)
    /\ batch.tool = "upsert_records" => batch.deleted = 0
    /\ \A j, k \in 1..Len(batch.errors) :
          j < k => batch.errors[j] < batch.errors[k]
    /\ \A j \in 1..Len(batch.errors) : batch.errors[j] \in 1..(batch.i - 1)

\* bulk_operations has returned from a batch of three whose first operation
\* failed and whose later operations were carried out
C26_Witness ==
    /\ batch.tool = "bulk_operations"
    /\ batch.at = "returned"
    /\ Len(batch.items) = 3
    /\ batch.errors = <<1>>
    /\ batch.created + batch.updated + batch.deleted = 2


====
